---- MODULE Spec2Model ----
(***************************************************************************)
(* Model of the Weld C/LLVM backend core:                                  *)
(*   - the routines generated by codegen/c/vector.rs (Vector),             *)
(*   - the routines generated by codegen/c/builder/merger.rs (Merger),     *)
(*   - the intrinsics registry of codegen/c/intrinsic.rs (Intrinsics).     *)
(*   - the memo slots of the two generators and what a request emits,     *)
(*   - the run context behind the weld_runst_* intrinsics.                 *)
(* The generated routines are modelled by what the emitted instructions    *)
(* compute when they run; the registry is modelled as the compile-time     *)
(* object it is.                                                           *)
(***************************************************************************)
EXTENDS Integers, Sequences, FiniteSets, TLC

(***************************************************************************)
(* Bounds of the model.                                                    *)
(***************************************************************************)
\* Width, in bits, that stands for the 64 bits of an LLVM i64.
SizeBits == 8
\* Largest element size (bytes) of an element type.
MaxElemSize == 2
\* Number of allocations one behaviour may make (addresses are not reused).
MaxAddr == 2
\* Number of vector values the program holds at a time.
MaxVecs == 2
\* Number of vector operations and stores in one behaviour.
MaxOps == 3
\* Number of merge and vmerge calls in one behaviour.
MaxMerges == 4
\* Width, in bits, of the integer element kinds of the mergers.
ElemBits == 6
\* Largest number of arguments given to call().
MaxArgs == 5
\* Largest number of parameters of an intrinsic registered through add().
MaxAddArgs == 2
\* Number of call instructions emitted in one behaviour.
MaxCalls == 1
\* Requests made to the Vector and Merger generators.
MaxRequests == 3
\* Bytes a run with a low memory limit may allocate.
MaxLowMem == 6
\* Direct calls of the run intrinsics in one behaviour.
MaxRunCalls == 4
\* Calls each of the two concurrent threads makes.
MaxThreadMerges == 2

\* Sizes the program passes to new and to extend.
NewSizes == {0, 3, 5}
ExtendSizes == {3, 5, 8}
\* Index and size the program passes to slice; index 5 is past the end of
\* a vector of 3 elements.
SliceInputs == {<<0, 3>>, <<0, 8>>, <<2, 0>>, <<2, 8>>, <<5, 3>>}
\* Indices the program stores at.
StoreIndexes == {0, 2}
ElemSizes == 1..MaxElemSize
\* Values stored through at().
StoreValues == {1}

(***************************************************************************)
(* Fixed-width integer arithmetic of the emitted LLVM instructions.        *)
(***************************************************************************)
Modulus == 2 ^ SizeBits
Half == 2 ^ (SizeBits - 1)
Word == 0..(Modulus - 1)

\* Two's complement reading of a word.
Signed(a) == IF a >= Half THEN a - Modulus ELSE a

\* LLVMBuildMul: wraps.
LLVMBuildMul(a, b) == (a * b) % Modulus
\* LLVMBuildSub: wraps.
LLVMBuildSub(a, b) == (a - b + Modulus) % Modulus
\* LLVMBuildNSWMul: the set of values the instruction may yield; a signed
\* overflow yields poison, i.e. any word.
LLVMBuildNSWMul(a, b) ==
    LET p == Signed(a) * Signed(b)
    IN  IF p >= -Half /\ p < Half THEN {(p + Modulus) % Modulus} ELSE Word
\* LLVMBuildICmp with LLVMIntUGT / LLVMIntSGT.
LLVMIntUGT(a, b) == a > b
LLVMIntSGT(a, b) == Signed(a) > Signed(b)
\* LLVMBuildSelect.
LLVMBuildSelect(c, a, b) == IF c THEN a ELSE b

Min(a, b) == IF a < b THEN a ELSE b
Max(a, b) == IF a > b THEN a ELSE b

(***************************************************************************)
(* Error codes of the run context.                                         *)
(***************************************************************************)
Success == 0
ConfigurationError == 1
LoadLibraryError == 2
CompileError == 3
ArrayOutOfBounds == 4
BadIteratorLength == 5
MismatchedZipSize == 6
OutOfMemory == 7
RunNotFound == 8
Unknown == 9
DeserializationError == 10
KeyNotFoundError == 11
AssertionError == 12
ErrnoMax == 13

\* The enumeration with one code listed twice.
WeldRuntimeErrno_twice ==
    <<Success, ConfigurationError, LoadLibraryError, CompileError,
      ArrayOutOfBounds, BadIteratorLength, MismatchedZipSize, OutOfMemory,
      RunNotFound, Unknown, DeserializationError, KeyNotFoundError,
      KeyNotFoundError>>

\* WeldRuntimeErrno: the codes the prelude defines, in the order it defines
\* them.
WeldRuntimeErrno ==
    <<Success, ConfigurationError, LoadLibraryError, CompileError,
      ArrayOutOfBounds, BadIteratorLength, MismatchedZipSize, OutOfMemory,
      RunNotFound, Unknown, DeserializationError, KeyNotFoundError,
      AssertionError>>

(***************************************************************************)
(* State.                                                                  *)
(***************************************************************************)
VARIABLES
    \* ---- run time of the generated vector routines ----
    elem_size,  \* size_of(elem_ty) of the Vector instance
    run,        \* the WeldRuntimeContext of the run
    heap,       \* heap[a]: the block at address a (addresses 1..Len(heap))
    vecs,       \* the vector values the program holds
    vlast,      \* the last vector operation: inputs, output, heap before
    nops,       \* vector operations and stores made so far
    \* ---- run time of the generated merger routines ----
    m_op,       \* BinOpKind of the Merger instance
    m_kind,     \* ScalarKind of the Merger instance
    mg,         \* the merger struct the program holds
    mhist,      \* the initial element and the values merged so far
    mlast,      \* the last merger operation
    \* ---- the intrinsics registry at code generation time ----
    intrinsics, \* Intrinsics.intrinsics: name -> Intrinsic
    module,     \* the functions declared in the LLVM module, in order
    calls,      \* the call instructions emitted through call()
    panicked,   \* code generation has panicked
    ilast,      \* the last registry operation
    prelude_code, \* CContext.prelude_code: the textual definitions, in order
    \* ---- the Vector and Merger generators at code generation time ----
    methods,    \* the memo slots of the Vector instance
    merger,     \* the memo slots of the Merger instance
    glast,      \* the last request made to a generator
    nreq,       \* requests made so far
    supported,  \* whether binop_identity / gen_binop return Ok for the
                \* operator and kind of the Merger instance
    unfinished, \* functions added to the module whose body was abandoned
    \* ---- the run context under direct calls of its intrinsics ----
    phase,      \* "host" before init, "running", "halted" after a call that
                \* does not return
    rlast,      \* the last call of a run intrinsic
    \* ---- two threads merging into one merger ----
    threads,    \* each thread's position in its call and what it has merged
    \* ---- names of numeric intrinsics ----
    nlast       \* the last llvm_numeric call: its arguments and its result

vvars == <<elem_size, run, heap, vecs, vlast, nops>>
mvars == <<m_op, m_kind, mg, mhist, mlast>>
ivars == <<intrinsics, module, calls, panicked, ilast, prelude_code>>
gvars == <<methods, merger, glast, nreq, supported, unfinished>>
rvars == <<phase, rlast>>
cvars == <<threads>>
nvars == <<nlast>>
vars == <<vvars, mvars, ivars, gvars, rvars, cvars, nvars>>

\* A byte that was never written.
Uninit == -1

\* Pointers: block address (0 is no block) and byte offset into the block.
NullPtr == [blk |-> 0, off |-> 0]

\* The vector struct: POINTER_INDEX = 0 is the pointer, SIZE_INDEX = 1 the size.
MkVector(p, s) == [ptr |-> p, size |-> s]

\* History of a vector made by new(n) and then only extended: the size new
\* was given, the sizes requested from extend and the size after each call.
NoLin == [n |-> 0, reqs |-> <<>>, sizes |-> <<>>]
\* A register of the program: empty, or holding a vector value.
\* src: the vector a clone was copied from.
NoSrc == [is |-> FALSE, v |-> MkVector(NullPtr, 0)]
NoVec == [held |-> FALSE, v |-> MkVector(NullPtr, 0), lin |-> NoLin, src |-> NoSrc]

\* No operation yet.
NoOp ==
    [op |-> "none", v |-> MkVector(NullPtr, 0), index |-> 0, size |-> 0,
     res |-> MkVector(NullPtr, 0), heap0 |-> <<>>, run0 |-> [errno |-> 0, result |-> 0, nworkers |-> 0, memlimit |-> 0, allocated |-> 0],
     nmalloc |-> 0, nrealloc |-> 0]

(***************************************************************************)
(* The run context and its allocator.                                      *)
(***************************************************************************)
\* The limit the host gives the run; the vector behaviours stay below it.
MemLimit == Modulus - 1
\* A limit of a few elements.
LowMemLimit == MaxLowMem

\* init that stores its arguments in each other's field.
weld_runst_init_swapped(nworkers, memlimit) ==
    [errno |-> Success, result |-> 0, nworkers |-> memlimit,
     memlimit |-> nworkers, allocated |-> 0]

\* weld_runst_init: the prelude definition.
weld_runst_init(nworkers, memlimit) ==
    [errno |-> Success, result |-> 0, nworkers |-> nworkers,
     memlimit |-> memlimit, allocated |-> 0]

FreshBlock(n) == [live |-> TRUE, bytes |-> [i \in 1..n |-> Uninit]]
DeadBlock == [live |-> FALSE, bytes |-> <<>>]

\* The first Min(old, n) bytes kept, the rest never written.
Resize(bytes, n) ==
    [i \in 1..n |-> IF i <= Len(bytes) THEN bytes[i] ELSE Uninit]

\* malloc that refuses a request over the limit without setting errno.
weld_runst_malloc_silent(rn, hp, size) ==
    IF rn.allocated + size > rn.memlimit
    THEN {[ptr |-> NullPtr, run |-> rn, heap |-> hp]}
    ELSE {[ptr |-> [blk |-> Len(hp) + 1, off |-> 0],
           run |-> [rn EXCEPT !.allocated = @ + size],
           heap |-> Append(hp, FreshBlock(size))]}
         \cup (IF size = 0 THEN {[ptr |-> NullPtr, run |-> rn, heap |-> hp]} ELSE {})

\* weld_runst_malloc(run, size): the outcomes of one call. Over the limit
\* the errno slot is set to OutOfMemory and the call returns no storage.
\* A request of 0 bytes may return no storage as well.
weld_runst_malloc(rn, hp, size) ==
    IF rn.allocated + size > rn.memlimit
    THEN {[ptr |-> NullPtr, run |-> [rn EXCEPT !.errno = OutOfMemory], heap |-> hp]}
    ELSE {[ptr |-> [blk |-> Len(hp) + 1, off |-> 0],
           run |-> [rn EXCEPT !.allocated = @ + size],
           heap |-> Append(hp, FreshBlock(size))]}
         \cup (IF size = 0 THEN {[ptr |-> NullPtr, run |-> rn, heap |-> hp]} ELSE {})

\* weld_runst_realloc(run, pointer, size): the block keeps its leading bytes
\* and either stays where it is or moves to a fresh address.
weld_runst_realloc(rn, hp, p, size) ==
    IF p.blk = 0 THEN weld_runst_malloc(rn, hp, size)
    ELSE
      LET old == Len(hp[p.blk].bytes)
          bytes == Resize(hp[p.blk].bytes, size)
          rn2 == [rn EXCEPT !.allocated = @ - old + size]
      IN  IF rn.allocated - old + size > rn.memlimit
          THEN {[ptr |-> NullPtr, run |-> [rn EXCEPT !.errno = OutOfMemory], heap |-> hp]}
          ELSE {[ptr |-> p, run |-> rn2,
                 heap |-> [hp EXCEPT ![p.blk].bytes = bytes]],
                [ptr |-> [blk |-> Len(hp) + 1, off |-> 0], run |-> rn2,
                 heap |-> Append([hp EXCEPT ![p.blk] = DeadBlock],
                                 [live |-> TRUE, bytes |-> bytes])]}

\* free that releases the block and keeps the counter.
weld_runst_free_keep(rn, hp, p) ==
    [run |-> rn, heap |-> [hp EXCEPT ![p.blk] = DeadBlock]]

\* weld_runst_free(run, pointer): the block is released and its size leaves
\* the counter.
weld_runst_free(rn, hp, p) ==
    [run |-> [rn EXCEPT !.allocated = @ - Len(hp[p.blk].bytes)],
     heap |-> [hp EXCEPT ![p.blk] = DeadBlock]]

\* weld_runst_set_errno(run, errno): the one errno slot of the run.
weld_runst_set_errno(rn, errno) == [rn EXCEPT !.errno = errno]

\* weld_runst_get_errno(run).
weld_runst_get_errno(rn) == rn.errno

\* weld_runst_get_result: the prelude definition.
weld_runst_get_result(rn) == rn.result

\* llvm.memcpy as call_memcpy emits it: n bytes from src to dst.  A copy
\* through a null destination is undefined; of its outcomes the model keeps
\* the one where the store is dropped and the caller goes on (a trap leaves
\* no state to look at).
call_memcpy(hp, dst, src, n) ==
    IF n = 0 \/ dst.blk = 0 THEN hp
    ELSE [hp EXCEPT ![dst.blk].bytes =
            [i \in 1..Len(@) |->
                IF i > dst.off /\ i <= dst.off + n
                THEN hp[src.blk].bytes[src.off + (i - dst.off)]
                ELSE @[i]]]

(***************************************************************************)
(* The generated vector routines.                                          *)
(***************************************************************************)
\* LLVMBuildGEP over an element pointer.
LLVMBuildGEP(p, index, es) == [blk |-> p.blk, off |-> p.off + index * es]

\* The vector points at size elements of a live block (or holds none).
Valid(hp, es, v) ==
    IF v.ptr.blk = 0 THEN v.size = 0 /\ v.ptr.off = 0
    ELSE /\ v.ptr.blk <= Len(hp)
         /\ hp[v.ptr.blk].live
         /\ v.ptr.off + v.size * es <= Len(hp[v.ptr.blk].bytes)

\* "{name}_size": returns the SIZE_INDEX field.
Vector_define_size(v) == v.size

\* "{name}_at": base + index, no bounds check.
Vector_define_at(v, index, es) == LLVMBuildGEP(v.ptr, index, es)

\* new with the byte count stored in the size field.
Vector_gen_new_bytes(rn, hp, es, size) ==
    LET alloc_size == LLVMBuildMul(es, size)
    IN  {[res |-> MkVector(m.ptr, alloc_size), run |-> m.run, heap |-> m.heap,
          nmalloc |-> 1, nrealloc |-> 0] :
            m \in weld_runst_malloc(rn, hp, alloc_size)}

\* "{name}.new"(size, run).
Vector_gen_new(rn, hp, es, size) ==
    LET alloc_size == LLVMBuildMul(es, size)
    IN  {[res |-> MkVector(m.ptr, size), run |-> m.run, heap |-> m.heap,
          nmalloc |-> 1, nrealloc |-> 0] :
            m \in weld_runst_malloc(rn, hp, alloc_size)}

\* clone with the source pointer stored in the result.
Vector_gen_clone_alias(rn, hp, es, vector) ==
    LET size == vector.size
        alloc_size == LLVMBuildMul(es, size)
    IN  {[res |-> MkVector(vector.ptr, size), run |-> m.run,
          heap |-> call_memcpy(m.heap, m.ptr, vector.ptr, alloc_size),
          nmalloc |-> 1, nrealloc |-> 0] :
            m \in weld_runst_malloc(rn, hp, alloc_size)}

\* "{name}.clone"(vector, run).
Vector_gen_clone(rn, hp, es, vector) ==
    LET size == vector.size
        alloc_size == LLVMBuildMul(es, size)
    IN  {[res |-> MkVector(m.ptr, size), run |-> m.run,
          heap |-> call_memcpy(m.heap, m.ptr, vector.ptr, alloc_size),
          nmalloc |-> 1, nrealloc |-> 0] :
            m \in weld_runst_malloc(rn, hp, alloc_size)}

\* slice with the operands of the select exchanged.
Vector_gen_slice_swapped(rn, hp, es, vector, index, size) ==
    LET cur_size == vector.size
        remaining == LLVMBuildSub(cur_size, index)
        size_cmp == LLVMIntUGT(size, remaining)
        new_size == LLVMBuildSelect(size_cmp, size, remaining)
        new_elements == LLVMBuildGEP(vector.ptr, index, es)
    IN  {[res |-> MkVector(new_elements, new_size), run |-> rn, heap |-> hp,
          nmalloc |-> 0, nrealloc |-> 0]}

\* "{name}.slice"(vector, index, size).
Vector_gen_slice(rn, hp, es, vector, index, size) ==
    LET cur_size == vector.size
        remaining == LLVMBuildSub(cur_size, index)
        size_cmp == LLVMIntUGT(size, remaining)
        new_size == LLVMBuildSelect(size_cmp, remaining, size)
        new_elements == LLVMBuildGEP(vector.ptr, index, es)
    IN  {[res |-> MkVector(new_elements, new_size), run |-> rn, heap |-> hp,
          nmalloc |-> 0, nrealloc |-> 0]}

\* extend that also reallocates when the requested size equals the size.
Vector_gen_extend_sge(rn, hp, es, vector, requested_size) ==
    LET current_size == vector.size
        resize_flag == Signed(requested_size) >= Signed(current_size)
    IN  IF resize_flag
        THEN {[res |-> MkVector(m.ptr, requested_size), run |-> m.run,
               heap |-> m.heap, nmalloc |-> 0, nrealloc |-> 1] :
                 m \in UNION {weld_runst_realloc(rn, hp, vector.ptr, alloc_size) :
                                alloc_size \in LLVMBuildNSWMul(requested_size, es)}}
        ELSE {[res |-> vector, run |-> rn, heap |-> hp,
               nmalloc |-> 0, nrealloc |-> 0]}

\* extend that reallocates to the requested size whenever the sizes differ.
Vector_gen_extend_shrink(rn, hp, es, vector, requested_size) ==
    LET current_size == vector.size
        resize_flag == requested_size # current_size
    IN  IF resize_flag
        THEN {[res |-> MkVector(m.ptr, requested_size), run |-> m.run,
               heap |-> m.heap, nmalloc |-> 0, nrealloc |-> 1] :
                 m \in UNION {weld_runst_realloc(rn, hp, vector.ptr, alloc_size) :
                                alloc_size \in LLVMBuildNSWMul(requested_size, es)}}
        ELSE {[res |-> vector, run |-> rn, heap |-> hp,
               nmalloc |-> 0, nrealloc |-> 0]}

\* "{name}.extend"(vector, requested_size, run).
Vector_gen_extend(rn, hp, es, vector, requested_size) ==
    LET current_size == vector.size
        resize_flag == LLVMIntSGT(requested_size, current_size)
    IN  IF resize_flag
        THEN {[res |-> MkVector(m.ptr, requested_size), run |-> m.run,
               heap |-> m.heap, nmalloc |-> 0, nrealloc |-> 1] :
                 m \in UNION {weld_runst_realloc(rn, hp, vector.ptr, alloc_size) :
                                alloc_size \in LLVMBuildNSWMul(requested_size, es)}}
        ELSE {[res |-> vector, run |-> rn, heap |-> hp,
               nmalloc |-> 0, nrealloc |-> 0]}

(***************************************************************************)
(* Actions: the program calls a routine on the vectors it holds.           *)
(***************************************************************************)
Regs == 1..MaxVecs

\* The effect of one call whose outcome is o, its result put in register d.
Effect(o, d, lin, src, rec) ==
    /\ Len(o.heap) <= MaxAddr
    /\ run' = o.run
    /\ heap' = o.heap
    /\ vecs' = [vecs EXCEPT ![d] = [held |-> TRUE, v |-> o.res, lin |-> lin, src |-> src]]
    /\ vlast' = [rec EXCEPT !.res = o.res, !.heap0 = heap, !.run0 = run,
                            !.nmalloc = o.nmalloc, !.nrealloc = o.nrealloc]
    /\ nops' = nops + 1
    /\ UNCHANGED elem_size

New ==
    /\ nops < MaxOps
    /\ \E d \in Regs, size \in NewSizes :
         \E o \in Vector_gen_new(run, heap, elem_size, size) :
            Effect(o, d, [n |-> size, reqs |-> <<>>, sizes |-> <<o.res.size>>], NoSrc,
                   [NoOp EXCEPT !.op = "new", !.size = size])

Clone ==
    /\ nops < MaxOps
    /\ \E i \in Regs, d \in Regs :
         /\ vecs[i].held
         /\ Valid(heap, elem_size, vecs[i].v)
         /\ \E o \in Vector_gen_clone(run, heap, elem_size, vecs[i].v) :
              Effect(o, d, NoLin, [is |-> TRUE, v |-> vecs[i].v],
                     [NoOp EXCEPT !.op = "clone", !.v = vecs[i].v])

Slice ==
    /\ nops < MaxOps
    /\ \E i \in Regs, d \in Regs, in \in SliceInputs :
         /\ vecs[i].held
         /\ Valid(heap, elem_size, vecs[i].v)
         /\ \E o \in Vector_gen_slice(run, heap, elem_size, vecs[i].v, in[1], in[2]) :
              Effect(o, d, NoLin, NoSrc,
                     [NoOp EXCEPT !.op = "slice", !.v = vecs[i].v,
                                  !.index = in[1], !.size = in[2]])

\* extend replaces the vector it is given; realloc needs the pointer malloc
\* or realloc returned.
Extend ==
    /\ nops < MaxOps
    /\ \E i \in Regs, size \in ExtendSizes :
         /\ vecs[i].held
         /\ Valid(heap, elem_size, vecs[i].v)
         /\ vecs[i].v.ptr.off = 0
         /\ \E o \in Vector_gen_extend(run, heap, elem_size, vecs[i].v, size) :
              Effect(o, i,
                     IF vecs[i].lin = NoLin THEN NoLin
                     ELSE [vecs[i].lin EXCEPT !.reqs = Append(@, size),
                                              !.sizes = Append(@, o.res.size)],
                     vecs[i].src,
                     [NoOp EXCEPT !.op = "extend", !.v = vecs[i].v, !.size = size])

\* A store of an element through the pointer at() returns.
Write ==
    /\ nops < MaxOps
    /\ \E i \in Regs, index \in StoreIndexes, val \in StoreValues :
         LET v == vecs[i].v
             p == Vector_define_at(v, index, elem_size)
         IN  /\ vecs[i].held
             /\ Valid(heap, elem_size, v)
             /\ index < Vector_define_size(v)
             /\ heap' = [heap EXCEPT ![p.blk].bytes =
                           [k \in 1..Len(@) |->
                              IF k > p.off /\ k <= p.off + elem_size THEN val ELSE @[k]]]
             /\ vlast' = [NoOp EXCEPT !.op = "write", !.v = v, !.index = index,
                                      !.size = val, !.heap0 = heap, !.run0 = run]
             /\ nops' = nops + 1
             /\ UNCHANGED <<elem_size, run, vecs>>

VInit ==
    /\ elem_size \in ElemSizes
    /\ run = weld_runst_init(1, MemLimit)
    /\ heap = <<>>
    /\ vecs = [i \in Regs |-> NoVec]
    /\ vlast = NoOp
    /\ nops = 0

VNext == New \/ Clone \/ Slice \/ Extend \/ Write

\* A run whose host gave it a limit the program's vectors reach.
VInitLowMem ==
    /\ elem_size \in ElemSizes
    /\ run = weld_runst_init(1, LowMemLimit)
    /\ heap = <<>>
    /\ vecs = [i \in Regs |-> NoVec]
    /\ vlast = NoOp
    /\ nops = 0

(***************************************************************************)
(* The vector routines called with sizes from the whole range of the size  *)
(* word.                                                                   *)
(***************************************************************************)
\* Sizes at the low end, at the sign bit and at the top of the word.
WideSizes == {3, Half, Modulus - 1}

\* The pointer is one the allocator returned (or none) and not yet released.
Owned(hp, v) ==
    /\ v.ptr.off = 0
    /\ v.ptr.blk # 0 => hp[v.ptr.blk].live

\* n bytes can be read through the pointer of v.
Readable(hp, v, n) ==
    \/ n = 0
    \/ /\ v.ptr.blk # 0
       /\ hp[v.ptr.blk].live
       /\ v.ptr.off + n <= Len(hp[v.ptr.blk].bytes)

NewWide ==
    /\ nops < MaxOps
    /\ \E d \in Regs, size \in WideSizes :
         \E o \in Vector_gen_new(run, heap, elem_size, size) :
            Effect(o, d, NoLin, NoSrc, [NoOp EXCEPT !.op = "new", !.size = size])

\* The copy reads as many bytes as clone asks the allocator for.
CloneWide ==
    /\ nops < MaxOps
    /\ \E i \in Regs, d \in Regs :
         /\ vecs[i].held
         /\ Readable(heap, vecs[i].v, LLVMBuildMul(elem_size, vecs[i].v.size))
         /\ \E o \in Vector_gen_clone(run, heap, elem_size, vecs[i].v) :
              Effect(o, d, NoLin, [is |-> TRUE, v |-> vecs[i].v],
                     [NoOp EXCEPT !.op = "clone", !.v = vecs[i].v])

ExtendWide ==
    /\ nops < MaxOps
    /\ \E i \in Regs, size \in WideSizes :
         /\ vecs[i].held
         /\ Owned(heap, vecs[i].v)
         /\ \E o \in Vector_gen_extend(run, heap, elem_size, vecs[i].v, size) :
              Effect(o, i, NoLin, vecs[i].src,
                     [NoOp EXCEPT !.op = "extend", !.v = vecs[i].v, !.size = size])

VNextWide == NewWide \/ CloneWide \/ ExtendWide

(***************************************************************************)
(* The operator routine shared by the merger routines.                     *)
(***************************************************************************)
\* LLVM_VECTOR_WIDTH: the number of lanes of a SIMD value.
LLVM_VECTOR_WIDTH == 4

\* The element kinds: a signed and an unsigned integer kind of ElemBits bits
\* and a floating kind whose results are rounded.
IntegerKinds == {"I", "U"}
ScalarKinds == IntegerKinds \cup {"F"}
BinOpKinds == {"Add", "Multiply", "Min", "Max"}

\* The values of a kind wrap (integers) or are rounded (floating).
ElemModulus == 2 ^ ElemBits
WrapKind(kind, x) ==
    IF kind = "U" THEN x % ElemModulus
    ELSE ((x + ElemModulus \div 2) % ElemModulus) - ElemModulus \div 2

\* Floating values keep three significant bits: below 8 every integer is
\* exact, from 8 on only the multiples of 4 are.
FloatMax == 1024
FloatRound(x) ==
    IF x > -8 /\ x < 8 THEN x
    ELSE IF x >= FloatMax THEN FloatMax
    ELSE IF x <= -FloatMax THEN -FloatMax
    ELSE IF x > 0 THEN 4 * (x \div 4) ELSE -(4 * ((-x) \div 4))

KindMin(kind) ==
    IF kind = "U" THEN 0
    ELSE IF kind = "I" THEN -(ElemModulus \div 2) ELSE -FloatMax
KindMax(kind) ==
    IF kind = "U" THEN ElemModulus - 1
    ELSE IF kind = "I" THEN ElemModulus \div 2 - 1 ELSE FloatMax

\* binop_identity(op, kind).
binop_identity(op, kind) ==
    CASE op = "Add" -> 0
      [] op = "Multiply" -> 1
      [] op = "Min" -> KindMax(kind)
      [] op = "Max" -> KindMin(kind)

\* The operator on one lane.
LaneOp(op, kind, a, b) ==
    LET exact == CASE op = "Add" -> a + b
                   [] op = "Multiply" -> a * b
                   [] op = "Min" -> IF a < b THEN a ELSE b
                   [] op = "Max" -> IF a > b THEN a ELSE b
    IN  IF kind = "F" THEN FloatRound(exact) ELSE WrapKind(kind, exact)

\* Types Scalar(kind) and Simd(kind).
Scalar(kind) == [simd |-> FALSE, kind |-> kind]
Simd(kind) == [simd |-> TRUE, kind |-> kind]

\* LLVM values: a scalar has one lane, a SIMD value LLVM_VECTOR_WIDTH lanes.
ScalarValue(x) == [vectorized |-> FALSE, lanes |-> <<x>>]
SimdValue(xs) == [vectorized |-> TRUE, lanes |-> xs]

\* gen_binop(op, left, right, ty): the instruction it emits applies the
\* operator to every lane of its operands.
gen_binop(op, left, right, ty) ==
    [vectorized |-> left.vectorized,
     lanes |-> [i \in 1..Len(left.lanes) |->
                   LaneOp(op, ty.kind, left.lanes[i], right.lanes[i])]]

(***************************************************************************)
(* The generated merger routines.                                          *)
(***************************************************************************)
\* Fields of the merger struct.
SCALAR_INDEX == 0
VECTOR_INDEX == 1

\* LLVMBuildStructGEP followed by a load / a store.
Field(m, index) == m[index + 1]
StoreField(m, index, value) == [m EXCEPT ![index + 1] = value]

\* new with the parameter stored in every lane of the vector field as well.
Merger_gen_new_allinit(op, kind, init) ==
    <<ScalarValue(init), SimdValue([i \in 1..LLVM_VECTOR_WIDTH |-> init])>>

\* "{name}.new"(init): the scalar field is the parameter, the vector field
\* the identity in every lane.
Merger_gen_new(op, kind, init) ==
    LET identity == binop_identity(op, kind)
        vector_identity == SimdValue([i \in 1..LLVM_VECTOR_WIDTH |-> identity])
    IN  <<ScalarValue(init), vector_identity>>

\* The type gen_merge_internal hands to gen_binop, for either field.
Merger_gen_merge_internal_ty(kind, gep_index) == Simd(kind)

\* The type the loop of gen_result hands to gen_binop.
Merger_gen_result_ty(kind) == Scalar(kind)

\* merge that stores the merged value instead of the operator's result.
Merger_gen_merge_internal_overwrite(op, kind, m, value, gep_index) ==
    StoreField(m, gep_index, value)

\* merge that folds the first lane of the value into the other field too.
Merger_gen_merge_internal_spill(op, kind, m, value, gep_index) ==
    LET elem == Field(m, gep_index)
        result == gen_binop(op, elem, value, Simd(kind))
        other == Field(m, 1 - gep_index)
        spilled == [other EXCEPT !.lanes =
                      [i \in 1..Len(@) |-> LaneOp(op, kind, @[i], value.lanes[1])]]
    IN  StoreField(StoreField(m, gep_index, result), 1 - gep_index, spilled)

\* "{name}.merge" / "{name}.vmerge": load the field, apply the operator,
\* store it back.
Merger_gen_merge_internal(op, kind, m, value, gep_index) ==
    LET elem == Field(m, gep_index)
        result == gen_binop(op, elem, value,
                            Merger_gen_merge_internal_ty(kind, gep_index))
    IN  StoreField(m, gep_index, result)

\* gen_merge: a SIMD value goes to vmerge, a scalar to merge.
Merger_gen_merge(op, kind, m, value) ==
    IF value.vectorized
    THEN Merger_gen_merge_internal(op, kind, m, value, VECTOR_INDEX)
    ELSE Merger_gen_merge_internal(op, kind, m, value, SCALAR_INDEX)

\* The loop of "{name}.result": for i in 0..LLVM_VECTOR_WIDTH.
RECURSIVE ResultLoop(_, _, _, _, _)
ResultLoop(op, kind, result, vector, i) ==
    IF i >= LLVM_VECTOR_WIDTH THEN result
    ELSE LET vector_element == ScalarValue(vector.lanes[i + 1])
         IN  ResultLoop(op, kind,
                        gen_binop(op, result, vector_element,
                                  Merger_gen_result_ty(kind)),
                        vector, i + 1)

\* result with the lanes taken in descending order.
RECURSIVE ResultLoopDown(_, _, _, _, _)
ResultLoopDown(op, kind, result, vector, i) ==
    IF i >= LLVM_VECTOR_WIDTH THEN result
    ELSE LET vector_element == ScalarValue(vector.lanes[LLVM_VECTOR_WIDTH - i])
         IN  ResultLoopDown(op, kind,
                            gen_binop(op, result, vector_element,
                                  Merger_gen_result_ty(kind)),
                            vector, i + 1)
Merger_gen_result_descending(op, kind, m) ==
    ResultLoopDown(op, kind, Field(m, SCALAR_INDEX), Field(m, VECTOR_INDEX), 0).lanes[1]

\* result that leaves its value in the scalar field.
Merger_gen_result_memory_folded(op, kind, m) ==
    StoreField(m, SCALAR_INDEX,
               ResultLoop(op, kind, Field(m, SCALAR_INDEX), Field(m, VECTOR_INDEX), 0))

\* The merger struct after "{name}.result" has run: the routine loads the
\* two fields and has no store.
Merger_gen_result_memory(op, kind, m) == m

\* "{name}.result"(merger pointer).
Merger_gen_result(op, kind, m) ==
    ResultLoop(op, kind, Field(m, SCALAR_INDEX), Field(m, VECTOR_INDEX), 0).lanes[1]

(***************************************************************************)
(* Actions: the program calls the merger routines.                         *)
(***************************************************************************)
\* Values the program merges.
ScalarInputs == {1, 2, 3}
BatchInputs == {<<4, 5, 6, 7>>}
\* Initial elements the program passes to new besides the identity.
InitInputs == {2}

NoMerger == <<ScalarValue(0), SimdValue(<<>>)>>
\* ty: the type the routine handed to gen_binop; prior: the operation before
\* this one.
NoPrior == [op |-> "none", before |-> NoMerger, value |-> 0]
NoMergerOp == [op |-> "none", arg |-> ScalarValue(0), before |-> NoMerger,
               value |-> 0, ty |-> Scalar("I"), prior |-> NoPrior]
Prior == [op |-> mlast.op, before |-> mlast.before, value |-> mlast.value]

MNew ==
    /\ mlast.op = "none"
    /\ \E init \in InitInputs \cup {binop_identity(m_op, m_kind)} :
         /\ mg' = Merger_gen_new(m_op, m_kind, init)
         /\ mhist' = [init |-> init, merged |-> <<>>]
         /\ mlast' = [NoMergerOp EXCEPT !.op = "new", !.arg = ScalarValue(init)]
    /\ UNCHANGED <<m_op, m_kind>>

Merge ==
    /\ mlast.op # "none"
    /\ Len(mhist.merged) < MaxMerges
    /\ \E x \in ScalarInputs :
         LET value == ScalarValue(x)
         IN  /\ mg' = Merger_gen_merge(m_op, m_kind, mg, value)
             /\ mhist' = [mhist EXCEPT !.merged = Append(@, value)]
             /\ mlast' = [NoMergerOp EXCEPT
                    !.op = "merge", !.arg = value, !.before = mg, !.prior = Prior,
                    !.ty = Merger_gen_merge_internal_ty(m_kind, SCALAR_INDEX)]
    /\ UNCHANGED <<m_op, m_kind>>

VMerge ==
    /\ mlast.op # "none"
    /\ Len(mhist.merged) < MaxMerges
    /\ \E b \in BatchInputs :
         LET value == SimdValue(b)
         IN  /\ mg' = Merger_gen_merge(m_op, m_kind, mg, value)
             /\ mhist' = [mhist EXCEPT !.merged = Append(@, value)]
             /\ mlast' = [NoMergerOp EXCEPT
                    !.op = "vmerge", !.arg = value, !.before = mg, !.prior = Prior,
                    !.ty = Merger_gen_merge_internal_ty(m_kind, VECTOR_INDEX)]
    /\ UNCHANGED <<m_op, m_kind>>

Result ==
    /\ mlast.op # "none"
    /\ mg' = Merger_gen_result_memory(m_op, m_kind, mg)
    /\ mlast' = [NoMergerOp EXCEPT !.op = "result", !.before = mg,
                                   !.value = Merger_gen_result(m_op, m_kind, mg),
                                   !.ty = Merger_gen_result_ty(m_kind),
                                   !.prior = Prior]
    /\ UNCHANGED <<m_op, m_kind, mhist>>

MInit ==
    /\ m_op \in BinOpKinds
    /\ m_kind \in ScalarKinds
    /\ mg = NoMerger
    /\ mhist = [init |-> 0, merged |-> <<>>]
    /\ mlast = NoMergerOp

MNext == MNew \/ Merge \/ VMerge \/ Result

(***************************************************************************)
(* Two threads on one merger: one calls "{name}.merge", the other          *)
(* "{name}.vmerge".  The routines take no lock; a call is a load of the    *)
(* field, the operator, and a store of the field.                          *)
(***************************************************************************)
Threads == {"merge", "vmerge"}

\* The values a thread passes to its routine.
ThreadInputs(t) ==
    IF t = "vmerge" THEN {SimdValue(b) : b \in BatchInputs}
    ELSE {ScalarValue(x) : x \in ScalarInputs}

\* Every call through the scalar field.
ThreadField_scalar(t) == SCALAR_INDEX

\* gen_merge: the field gen_merge_internal is given for the routine.
ThreadField(t) == IF t = "vmerge" THEN VECTOR_INDEX ELSE SCALAR_INDEX

\* A thread between calls.  done: the values it has merged; raced: one of
\* its calls loaded while a call of the other thread was between its load
\* and its store.
NoThread == [pc |-> "idle", value |-> ScalarValue(0), elem |-> ScalarValue(0),
             done |-> <<>>, raced |-> FALSE]

Other(t) == CHOOSE u \in Threads : u # t

\* The call and its LLVMBuildStructGEP + LLVMBuildLoad.
ThreadLoad(t) ==
    /\ threads[t].pc = "idle"
    /\ Len(threads[t].done) < MaxThreadMerges
    /\ \E value \in ThreadInputs(t) :
         threads' = [threads EXCEPT ![t].pc = "loaded",
                                    ![t].value = value,
                                    ![t].elem = Field(mg, ThreadField(t)),
                                    ![t].raced = @ \/ threads[Other(t)].pc = "loaded"]
    /\ UNCHANGED mvars

\* gen_binop on the loaded value, LLVMBuildStore and the return.
ThreadStore(t) ==
    /\ threads[t].pc = "loaded"
    /\ mg' = StoreField(mg, ThreadField(t),
                        gen_binop(m_op, threads[t].elem, threads[t].value,
                                  Merger_gen_merge_internal_ty(m_kind, ThreadField(t))))
    /\ threads' = [threads EXCEPT ![t].pc = "idle",
                                  ![t].done = Append(@, threads[t].value)]
    /\ UNCHANGED <<m_op, m_kind, mhist, mlast>>

MergeLoad == ThreadLoad("merge")
MergeStore == ThreadStore("merge")
VMergeLoad == ThreadLoad("vmerge")
VMergeStore == ThreadStore("vmerge")

\* The merger new returned, shared by the two threads.
CInit ==
    /\ m_op \in BinOpKinds
    /\ m_kind \in ScalarKinds
    /\ \E init \in InitInputs \cup {binop_identity(m_op, m_kind)} :
         /\ mg = Merger_gen_new(m_op, m_kind, init)
         /\ mhist = [init |-> init, merged |-> <<>>]
         /\ mlast = [NoMergerOp EXCEPT !.op = "new", !.arg = ScalarValue(init)]
    /\ threads = [t \in Threads |-> NoThread]

CNext == MergeLoad \/ MergeStore \/ VMergeLoad \/ VMergeStore

(***************************************************************************)
(* The intrinsics registry.                                                *)
(***************************************************************************)
\* The intrinsics populate_defaults registers, in order: name, number of
\* parameters of the declared function type, whether the entry is a
\* FunctionPointer (bound to the runtime's function) or a Builtin, and
\* whether populate_defaults adds a textual definition of the function to
\* the prelude, and whether it gives the function the NoReturn attribute.
DefaultIntrinsics ==
    << [name |-> "weld_runst_init",           nparams |-> 2, kind |-> "FunctionPointer", text |-> TRUE,
          noreturn |-> FALSE],
       [name |-> "weld_runst_get_result",     nparams |-> 1, kind |-> "FunctionPointer", text |-> TRUE,
          noreturn |-> FALSE],
       [name |-> "weld_runst_set_result",     nparams |-> 2, kind |-> "FunctionPointer", text |-> FALSE,
          noreturn |-> FALSE],
       [name |-> "weld_runst_malloc",         nparams |-> 2, kind |-> "FunctionPointer", text |-> FALSE,
          noreturn |-> FALSE],
       [name |-> "weld_runst_realloc",        nparams |-> 3, kind |-> "FunctionPointer", text |-> FALSE,
          noreturn |-> FALSE],
       [name |-> "weld_runst_free",           nparams |-> 2, kind |-> "FunctionPointer", text |-> FALSE,
          noreturn |-> FALSE],
       [name |-> "weld_runst_get_errno",      nparams |-> 1, kind |-> "FunctionPointer", text |-> FALSE,
          noreturn |-> FALSE],
       [name |-> "weld_runst_set_errno",      nparams |-> 2, kind |-> "FunctionPointer", text |-> FALSE,
          noreturn |-> TRUE],
       [name |-> "weld_runst_assert",         nparams |-> 2, kind |-> "FunctionPointer", text |-> FALSE,
          noreturn |-> FALSE],
       [name |-> "weld_runst_print",          nparams |-> 2, kind |-> "FunctionPointer", text |-> FALSE,
          noreturn |-> FALSE],
       [name |-> "llvm.memcpy.p0i8.p0i8.i64", nparams |-> 5, kind |-> "Builtin", text |-> FALSE,
          noreturn |-> FALSE],
       [name |-> "llvm.memset.p0i8.i64",      nparams |-> 5, kind |-> "Builtin", text |-> FALSE,
          noreturn |-> FALSE] >>

DefaultNames == {DefaultIntrinsics[i].name : i \in DOMAIN DefaultIntrinsics}
\* No function is declared NoReturn.
NoReturn_none(name) == FALSE
\* The function is declared with LLVMExtAttribute::NoReturn: the code after a
\* call of it is unreachable.
NoReturn(name) ==
    \E i \in DOMAIN DefaultIntrinsics :
       DefaultIntrinsics[i].name = name /\ DefaultIntrinsics[i].noreturn
\* Names the code generator passes to add, get and call: three of the
\* defaults (two function pointers with 2 and 3 parameters, one builtin with
\* 5) and two names populate_defaults does not register.
OtherNames == {"foo", "bar"}
Names == {"weld_runst_malloc", "weld_runst_realloc", "llvm.memcpy.p0i8.p0i8.i64"}
            \cup OtherNames

\* LLVMAddFunction(module, name, fn_type): the function is appended to the
\* module; its handle is its position.
LLVMAddFunction(md, name, nparams) == Append(md, [name |-> name, nparams |-> nparams])
\* LLVMCountParams(func).
LLVMCountParams(md, func) == md[func].nparams

\* Intrinsic::Builtin(value) and Intrinsic::FunctionPointer(value, pointer);
\* the pointer of the runtime function is named after the function.
Builtin(value) == [kind |-> "Builtin", value |-> value, pointer |-> ""]
FunctionPointer(value, pointer) ==
    [kind |-> "FunctionPointer", value |-> value, pointer |-> pointer]

\* Intrinsic::value.
Intrinsic_value(entry) == entry.value

\* FnvHashMap::insert.
Insert(map, key, entry) ==
    [k \in DOMAIN map \cup {key} |-> IF k = key THEN entry ELSE map[k]]

\* An entry of the prelude: a type definition or the definition of a
\* function, by name.
Typedef(name) == [kind |-> "typedef", name |-> name]
FunctionText(name) == [kind |-> "function", name |-> name]

\* populate_defaults: the registry, the module and the prelude after the
\* first k defaults.  The prelude starts with the errno definitions and the
\* WeldRuntimeContext struct.
RECURSIVE populate_defaults(_)
populate_defaults(k) ==
    IF k = 0
    THEN [intrinsics |-> <<>>, module |-> <<>>,
          prelude_code |-> <<Typedef("WeldRuntimeContext")>>]
    ELSE LET prev == populate_defaults(k - 1)
             d == DefaultIntrinsics[k]
             md == LLVMAddFunction(prev.module, d.name, d.nparams)
             function == Len(md)
         IN  [intrinsics |->
                 Insert(prev.intrinsics, d.name,
                        IF d.kind = "Builtin" THEN Builtin(function)
                        ELSE FunctionPointer(function, d.name)),
              module |-> md,
              prelude_code |->
                 IF d.text THEN Append(prev.prelude_code, FunctionText(d.name))
                 ELSE prev.prelude_code]

\* Intrinsics::defaults.
Intrinsics_defaults == populate_defaults(Len(DefaultIntrinsics))

\* Option<LLVMValueRef>: None is 0, Some(v) is the handle v.
None == 0

\* Intrinsics::get(key).
Intrinsics_get(map, key) ==
    IF key \in DOMAIN map THEN Intrinsic_value(map[key]) ELSE None

\* mappings that does not filter the builtins out.
RECURSIVE MappingsAll(_, _)
MappingsAll(map, keys) ==
    IF keys = {} THEN <<>>
    ELSE LET name == CHOOSE k \in keys : TRUE
         IN  <<<<name, map[name].pointer>>>> \o MappingsAll(map, keys \ {name})

\* Intrinsics::mappings: the loop over the entries of the hash map, which
\* pushes (name, ptr) for a FunctionPointer entry and skips a Builtin.  The
\* iteration order of the hash map is some order of its keys.
RECURSIVE MappingsLoop(_, _)
MappingsLoop(map, keys) ==
    IF keys = {} THEN <<>>
    ELSE LET name == CHOOSE k \in keys : TRUE
             entry == map[name]
         IN  (IF entry.kind = "FunctionPointer"
              THEN <<<<name, entry.pointer>>>> ELSE <<>>)
               \o MappingsLoop(map, keys \ {name})

\* mappings over every entry.
Intrinsics_mappings_all(map) == MappingsAll(map, DOMAIN map)

\* Intrinsics::mappings.
Intrinsics_mappings(map) == MappingsLoop(map, DOMAIN map)

\* add that registers the name whether or not it is registered already.
Intrinsics_add_overwrite(map, md, name, nargs) ==
    LET md2 == LLVMAddFunction(md, name, nargs)
    IN  [ret |-> name \notin DOMAIN map,
         intrinsics |-> Insert(map, name, Builtin(Len(md2))),
         module |-> md2]

\* add that makes room for a new name by dropping a registered one.
Intrinsics_add_evict(map, md, name, nargs) ==
    IF name \notin DOMAIN map
    THEN LET md2 == LLVMAddFunction(md, name, nargs)
             old == CHOOSE k \in DOMAIN map : TRUE
             kept == [k \in DOMAIN map \ {old} |-> map[k]]
         IN  [ret |-> TRUE,
              intrinsics |-> Insert(kept, name, Builtin(Len(md2))),
              module |-> md2]
    ELSE [ret |-> FALSE, intrinsics |-> map, module |-> md]

\* Intrinsics::add(name, ret_ty, arg_tys).
Intrinsics_add(map, md, name, nargs) ==
    IF name \notin DOMAIN map
    THEN LET md2 == LLVMAddFunction(md, name, nargs)
             function == Len(md2)
         IN  [ret |-> TRUE,
              intrinsics |-> Insert(map, name, Builtin(function)),
              module |-> md2]
    ELSE [ret |-> FALSE, intrinsics |-> map, module |-> md]

\* LLVMBuildCall(builder, func, args).
LLVMBuildCall(cs, func, args) == Append(cs, [func |-> func, args |-> args])

\* call that passes as many arguments as the function has parameters.
Intrinsics_call_fit(map, md, cs, name, args) ==
    IF name \in DOMAIN map
    THEN LET func == Intrinsic_value(map[name])
             n == LLVMCountParams(md, func)
         IN  [panic |-> FALSE,
              calls |-> LLVMBuildCall(cs, func,
                           [i \in 1..n |-> IF i <= Len(args) THEN args[i] ELSE 0])]
    ELSE [panic |-> TRUE, calls |-> cs]

\* Intrinsics::call(builder, name, args): panics on a count mismatch;
\* unreachable!() on an unknown name panics as well.
Intrinsics_call(map, md, cs, name, args) ==
    IF name \in DOMAIN map
    THEN LET func == Intrinsic_value(map[name])
         IN  IF Len(args) # LLVMCountParams(md, func)
             THEN [panic |-> TRUE, calls |-> cs]
             ELSE [panic |-> FALSE, calls |-> LLVMBuildCall(cs, func, args)]
    ELSE [panic |-> TRUE, calls |-> cs]

\* The argument lists: k distinct values.
Args(k) == [i \in 1..k |-> i]

\* The wrappers with call_memcpy passing only dst, src and size.
Wrappers_short ==
    { [wrapper |-> "call_weld_run_init",       name |-> "weld_runst_init",           nargs |-> 2],
      [wrapper |-> "call_weld_run_get_result", name |-> "weld_runst_get_result",     nargs |-> 1],
      [wrapper |-> "call_weld_run_set_result", name |-> "weld_runst_set_result",     nargs |-> 2],
      [wrapper |-> "call_weld_run_malloc",     name |-> "weld_runst_malloc",         nargs |-> 2],
      [wrapper |-> "call_weld_run_realloc",    name |-> "weld_runst_realloc",        nargs |-> 3],
      [wrapper |-> "call_weld_run_free",       name |-> "weld_runst_free",           nargs |-> 2],
      [wrapper |-> "call_weld_run_get_errno",  name |-> "weld_runst_get_errno",      nargs |-> 1],
      [wrapper |-> "call_weld_run_set_errno",  name |-> "weld_runst_set_errno",      nargs |-> 2],
      [wrapper |-> "call_weld_run_assert",     name |-> "weld_runst_assert",         nargs |-> 2],
      [wrapper |-> "call_weld_run_print",      name |-> "weld_runst_print",          nargs |-> 2],
      [wrapper |-> "call_memcpy",              name |-> "llvm.memcpy.p0i8.p0i8.i64", nargs |-> 3],
      [wrapper |-> "call_memset_zero",         name |-> "llvm.memset.p0i8.i64",      nargs |-> 5] }

\* The convenience wrappers: the name each looks up with get and the
\* number of elements of the args array it builds.
Wrappers ==
    { [wrapper |-> "call_weld_run_init",       name |-> "weld_runst_init",           nargs |-> 2],
      [wrapper |-> "call_weld_run_get_result", name |-> "weld_runst_get_result",     nargs |-> 1],
      [wrapper |-> "call_weld_run_set_result", name |-> "weld_runst_set_result",     nargs |-> 2],
      [wrapper |-> "call_weld_run_malloc",     name |-> "weld_runst_malloc",         nargs |-> 2],
      [wrapper |-> "call_weld_run_realloc",    name |-> "weld_runst_realloc",        nargs |-> 3],
      [wrapper |-> "call_weld_run_free",       name |-> "weld_runst_free",           nargs |-> 2],
      [wrapper |-> "call_weld_run_get_errno",  name |-> "weld_runst_get_errno",      nargs |-> 1],
      [wrapper |-> "call_weld_run_set_errno",  name |-> "weld_runst_set_errno",      nargs |-> 2],
      [wrapper |-> "call_weld_run_assert",     name |-> "weld_runst_assert",         nargs |-> 2],
      [wrapper |-> "call_weld_run_print",      name |-> "weld_runst_print",          nargs |-> 2],
      [wrapper |-> "call_memcpy",              name |-> "llvm.memcpy.p0i8.p0i8.i64", nargs |-> 5],
      [wrapper |-> "call_memset_zero",         name |-> "llvm.memset.p0i8.i64",      nargs |-> 5] }

\* A wrapper: LLVMBuildCall on self.get(name).unwrap() with its args array;
\* unwrap() on None panics.  The parameter count is not looked at.
Intrinsics_call_wrapper(map, cs, w) ==
    LET func == Intrinsics_get(map, w.name)
    IN  IF func = None
        THEN [panic |-> TRUE, calls |-> cs]
        ELSE [panic |-> FALSE, calls |-> LLVMBuildCall(cs, func, Args(w.nargs))]

(***************************************************************************)
(* Actions: the code generator uses the registry.                          *)
(***************************************************************************)
NoRegistryOp ==
    [op |-> "none", name |-> "", args |-> <<>>, ret |-> 0,
     before |-> <<>>, module0 |-> <<>>, calls0 |-> <<>>]

Add ==
    /\ ~panicked
    /\ \E name \in Names, nargs \in 1..MaxAddArgs :
         LET o == Intrinsics_add(intrinsics, module, name, nargs)
         IN  /\ intrinsics' = o.intrinsics
             /\ module' = o.module
             /\ ilast' = [op |-> "add", name |-> name, args |-> Args(nargs),
                          ret |-> IF o.ret THEN 1 ELSE 0,
                          before |-> intrinsics, module0 |-> module,
                          calls0 |-> calls]
    /\ UNCHANGED <<calls, panicked, prelude_code>>

Get ==
    /\ ~panicked
    /\ \E name \in Names :
         ilast' = [op |-> "get", name |-> name, args |-> <<>>,
                   ret |-> Intrinsics_get(intrinsics, name),
                   before |-> intrinsics, module0 |-> module, calls0 |-> calls]
    /\ UNCHANGED <<intrinsics, module, calls, panicked, prelude_code>>

Call ==
    /\ ~panicked
    /\ Len(calls) < MaxCalls
    /\ \E name \in Names, k \in 0..MaxArgs :
         LET o == Intrinsics_call(intrinsics, module, calls, name, Args(k))
         IN  /\ calls' = o.calls
             /\ panicked' = o.panic
             /\ ilast' = [op |-> "call", name |-> name, args |-> Args(k),
                          ret |-> IF o.panic THEN 0 ELSE Len(o.calls),
                          before |-> intrinsics, module0 |-> module,
                          calls0 |-> calls]
    /\ UNCHANGED <<intrinsics, module, prelude_code>>

\* mappings(): reads the registry.
Mappings ==
    /\ ~panicked
    /\ ilast' = [op |-> "mappings", name |-> "", args |-> <<>>,
                 ret |-> Len(Intrinsics_mappings(intrinsics)),
                 before |-> intrinsics, module0 |-> module, calls0 |-> calls]
    /\ UNCHANGED <<intrinsics, module, calls, panicked, prelude_code>>

\* One of the call_weld_run_* / call_memcpy / call_memset_zero wrappers.
CallWrapper ==
    /\ ~panicked
    /\ Len(calls) < MaxCalls
    /\ \E w \in Wrappers :
         LET o == Intrinsics_call_wrapper(intrinsics, calls, w)
         IN  /\ calls' = o.calls
             /\ panicked' = o.panic
             /\ ilast' = [op |-> "wrapper", name |-> w.name, args |-> Args(w.nargs),
                          ret |-> IF o.panic THEN 0 ELSE Len(o.calls),
                          before |-> intrinsics, module0 |-> module,
                          calls0 |-> calls]
    /\ UNCHANGED <<intrinsics, module, prelude_code>>

\* After Intrinsics::defaults.
IInit ==
    /\ intrinsics = Intrinsics_defaults.intrinsics
    /\ module = Intrinsics_defaults.module
    /\ prelude_code = Intrinsics_defaults.prelude_code
    /\ calls = <<>>
    /\ panicked = FALSE
    /\ ilast = NoRegistryOp

INext == Add \/ Get \/ Call \/ Mappings \/ CallWrapper

(***************************************************************************)
(* Intrinsics::llvm_numeric: the name of a numeric type's LLVM intrinsic.  *)
(***************************************************************************)
\* ScalarKind.
NumericKinds ==
    {"Bool", "I8", "I16", "I32", "I64", "U8", "U16", "U32", "U64", "F32", "F64"}

\* Names of numeric intrinsics the code generator asks for.
NumericNames == {"sqrt", "exp", "log", "sin", "cos", "ctpop"}

\* The match on kind.
llvm_numeric_suffix(kind) ==
    CASE kind = "Bool" -> "i1"
      [] kind = "I8" -> "i32"
      [] kind = "I16" -> "i16"
      [] kind = "I32" -> "i32"
      [] kind = "I64" -> "i64"
      [] kind = "U8" -> "i32"
      [] kind = "U16" -> "i16"
      [] kind = "U32" -> "i32"
      [] kind = "U64" -> "i64"
      [] kind = "F32" -> "f32"
      [] kind = "F64" -> "f64"

\* llvm_numeric(name, kind, simd): format!("llvm.{}.", name), then
\* format!("v{}", LLVM_VECTOR_WIDTH) if simd, then the suffix of the kind.
llvm_numeric(name, kind, simd) ==
    LET result == "llvm." \o name \o "."
        result2 == IF simd THEN result \o ("v" \o ToString(LLVM_VECTOR_WIDTH))
                   ELSE result
    IN  result2 \o llvm_numeric_suffix(kind)

NoNumeric == [op |-> "none", name |-> "", kind |-> "Bool", simd |-> FALSE,
              result |-> ""]

\* The code generator asks for the name of an intrinsic.
LlvmNumeric ==
    \E name \in NumericNames, kind \in NumericKinds, simd \in BOOLEAN :
       nlast' = [op |-> "llvm_numeric", name |-> name, kind |-> kind,
                 simd |-> simd, result |-> llvm_numeric(name, kind, simd)]

NInit == nlast = NoNumeric
NNext == LlvmNumeric

(***************************************************************************)
(* The Vector and Merger generators at code generation time: the memo      *)
(* slots, what a request adds to the module and to the prelude, and the    *)
(* call site it emits.                                                     *)
(***************************************************************************)
\* The names of the one Vector instance and the one Merger instance.
VectorName == "vec"
MergerName == "merger"

\* define_function(ret_ty, c_ret_ty, arg_tys, c_arg_tys, name, ...): adds the
\* function to the module and hands back a buffer with its C header; the
\* buffer reaches the prelude only if the caller adds it.
define_function(md, name, nparams) == LLVMAddFunction(md, name, nparams)

\* Vector::define: every memo slot is None; the struct typedef goes to the
\* prelude.
Vector_define ==
    [new |-> None, clone |-> None, at |-> None, c_at |-> "", vat |-> None,
     size |-> None, c_size |-> "", slice |-> None, extend |-> None]
Vector_define_prelude(pc) == Append(pc, Typedef(VectorName))

\* Merger::define: every memo slot is None; nothing goes to the prelude.
Merger_define == [new |-> None, merge |-> None, vmerge |-> None, result |-> None]

\* The state a request works on: cg.ret is the call instruction it returns
\* (its position in calls), cg.c_ret the function named in the C call text
\* it returns.
\* cg.err: the request returns Err; cg.unfinished: the functions a failed
\* request left in the module without a body.
CodeGen(ms, mr, md, pc, cs, uf) ==
    [methods |-> ms, merger |-> mr, module |-> md, prelude_code |-> pc,
     calls |-> cs, ret |-> None, c_ret |-> "", err |-> FALSE, unfinished |-> uf]

\* The `?` on an Err: the request returns at once, leaving the function it
\* was building in the module.
Fail(cg, function) ==
    [cg EXCEPT !.err = TRUE, !.unfinished = @ \cup {function}]

\* The call site a gen_* request ends with.
CallSite(cg, func, nargs) ==
    [cg EXCEPT !.calls = LLVMBuildCall(@, func, Args(nargs)),
               !.ret = Len(cg.calls) + 1]

\* Vector::gen_new.
Vector_gen_new_emit(cg) ==
    LET c1 == IF cg.methods.new = None
              THEN LET md == define_function(cg.module, "vec.new", 2)
                   IN  [cg EXCEPT !.module = md, !.methods.new = Len(md)]
              ELSE cg
    IN  CallSite(c1, c1.methods.new, 2)

\* Vector::gen_clone.
Vector_gen_clone_emit(cg) ==
    LET c1 == IF cg.methods.clone = None
              THEN LET md == define_function(cg.module, "vec.clone", 2)
                   IN  [cg EXCEPT !.module = md, !.methods.clone = Len(md)]
              ELSE cg
    IN  CallSite(c1, c1.methods.clone, 2)

\* Vector::define_at: the one routine behind gen_at and c_gen_at; its C body
\* is added to the prelude.
Vector_define_at_emit(cg) ==
    IF cg.methods.at = None
    THEN LET md == define_function(cg.module, "vec_at", 2)
         IN  [cg EXCEPT !.module = md,
                        !.prelude_code = Append(@, FunctionText("vec_at")),
                        !.methods.c_at = "vec_at",
                        !.methods.at = Len(md)]
    ELSE cg

\* gen_at that defines the routine on every request.
Vector_gen_at_emit_always(cg) ==
    LET c1 == Vector_define_at_emit([cg EXCEPT !.methods.at = None])
    IN  CallSite(c1, c1.methods.at, 2)

\* Vector::gen_at.
Vector_gen_at_emit(cg) ==
    LET c1 == IF cg.methods.at = None THEN Vector_define_at_emit(cg) ELSE cg
    IN  CallSite(c1, c1.methods.at, 2)

\* Vector::c_gen_at: returns the text of a call of c_at.
Vector_c_gen_at_emit(cg) ==
    LET c1 == IF cg.methods.at = None THEN Vector_define_at_emit(cg) ELSE cg
    IN  [c1 EXCEPT !.c_ret = c1.methods.c_at]

\* Vector::gen_vat.
Vector_gen_vat_emit(cg) ==
    LET c1 == IF cg.methods.vat = None
              THEN LET md == define_function(cg.module, "vec.vat", 2)
                   IN  [cg EXCEPT !.module = md, !.methods.vat = Len(md)]
              ELSE cg
    IN  CallSite(c1, c1.methods.vat, 2)

\* Vector::define_size: the one routine behind gen_size and c_gen_size; its
\* C body is added to the prelude.
Vector_define_size_emit(cg) ==
    IF cg.methods.size = None
    THEN LET md == define_function(cg.module, "vec_size", 1)
         IN  [cg EXCEPT !.module = md,
                        !.prelude_code = Append(@, FunctionText("vec_size")),
                        !.methods.c_size = "vec_size",
                        !.methods.size = Len(md)]
    ELSE cg

\* Vector::gen_size.
Vector_gen_size_emit(cg) ==
    LET c1 == IF cg.methods.size = None THEN Vector_define_size_emit(cg) ELSE cg
    IN  CallSite(c1, c1.methods.size, 1)

\* Vector::c_gen_size: returns the text of a call of c_size.
Vector_c_gen_size_emit(cg) ==
    LET c1 == IF cg.methods.size = None THEN Vector_define_size_emit(cg) ELSE cg
    IN  [c1 EXCEPT !.c_ret = c1.methods.c_size]

\* Vector::gen_slice.
Vector_gen_slice_emit(cg) ==
    LET c1 == IF cg.methods.slice = None
              THEN LET md == define_function(cg.module, "vec.slice", 3)
                   IN  [cg EXCEPT !.module = md, !.methods.slice = Len(md)]
              ELSE cg
    IN  CallSite(c1, c1.methods.slice, 3)

\* Vector::gen_extend.
Vector_gen_extend_emit(cg) ==
    LET c1 == IF cg.methods.extend = None
              THEN LET md == define_function(cg.module, "vec.extend", 3)
                   IN  [cg EXCEPT !.module = md, !.methods.extend = Len(md)]
              ELSE cg
    IN  CallSite(c1, c1.methods.extend, 3)

\* gen_new that fills the memo slot as soon as the function is defined.
Merger_gen_new_emit_eager(cg) ==
    LET c1 == IF cg.merger.new = None
              THEN LET md == define_function(cg.module, "merger.new", 1)
                       c0 == [cg EXCEPT !.module = md, !.merger.new = Len(md)]
                   IN  IF supported.identity THEN c0 ELSE Fail(c0, Len(md))
              ELSE cg
    IN  IF c1.err THEN c1 ELSE CallSite(c1, c1.merger.new, 1)

\* Merger::gen_new: binop_identity(op, kind)? comes after define_function
\* and before the slot is filled.
Merger_gen_new_emit(cg) ==
    LET c1 == IF cg.merger.new = None
              THEN LET md == define_function(cg.module, "merger.new", 1)
                   IN  IF supported.identity
                       THEN [cg EXCEPT !.module = md, !.merger.new = Len(md)]
                       ELSE Fail([cg EXCEPT !.module = md], Len(md))
              ELSE cg
    IN  IF c1.err THEN c1 ELSE CallSite(c1, c1.merger.new, 1)

\* Merger::gen_merge_internal(name, arguments, c_arguments, gep_index):
\* builds the function and returns it, or the Err of gen_binop(..)?.
Merger_gen_merge_internal_emit(cg, name, nargs) ==
    LET md == define_function(cg.module, name, nargs)
        c0 == [cg EXCEPT !.module = md]
    IN  IF supported.binop
        THEN [cg |-> c0, function |-> Len(md)]
        ELSE [cg |-> Fail(c0, Len(md)), function |-> None]

\* Merger::gen_merge(llvm_builder, builder, value): the routine depends on
\* whether the value is a SIMD vector; the slot is assigned only past the
\* `?` on gen_merge_internal.
Merger_gen_merge_emit(cg, vectorized) ==
    IF vectorized
    THEN LET c1 == IF cg.merger.vmerge = None
                   THEN LET o == Merger_gen_merge_internal_emit(cg, "merger.vmerge", 2)
                        IN  IF o.cg.err THEN o.cg
                            ELSE [o.cg EXCEPT !.merger.vmerge = o.function]
                   ELSE cg
         IN  IF c1.err THEN c1 ELSE CallSite(c1, c1.merger.vmerge, 2)
    ELSE LET c1 == IF cg.merger.merge = None
                   THEN LET o == Merger_gen_merge_internal_emit(cg, "merger.merge", 2)
                        IN  IF o.cg.err THEN o.cg
                            ELSE [o.cg EXCEPT !.merger.merge = o.function]
                   ELSE cg
         IN  IF c1.err THEN c1 ELSE CallSite(c1, c1.merger.merge, 2)

\* Merger::gen_result: gen_binop(..)? sits in the loop over the lanes,
\* after define_function and before the slot is filled.
Merger_gen_result_emit(cg) ==
    LET c1 == IF cg.merger.result = None
              THEN LET md == define_function(cg.module, "merger.result", 1)
                   IN  IF supported.binop
                       THEN [cg EXCEPT !.module = md, !.merger.result = Len(md)]
                       ELSE Fail([cg EXCEPT !.module = md], Len(md))
              ELSE cg
    IN  IF c1.err THEN c1 ELSE CallSite(c1, c1.merger.result, 1)

(***************************************************************************)
(* Actions: the front end requests operations of the generators.           *)
(***************************************************************************)
NoRequest ==
    [op |-> "none", ret |-> None, c_ret |-> "", err |-> FALSE,
     methods0 |-> Vector_define, merger0 |-> Merger_define,
     module0 |-> <<>>, prelude_code0 |-> <<>>, calls0 |-> <<>>]

\* The state the request starts from.
Current == CodeGen(methods, merger, module, prelude_code, calls, unfinished)

\* A request with outcome o.
Request(op, o) ==
    /\ nreq < MaxRequests
    /\ methods' = o.methods
    /\ merger' = o.merger
    /\ module' = o.module
    /\ prelude_code' = o.prelude_code
    /\ calls' = o.calls
    /\ unfinished' = o.unfinished
    /\ glast' = [op |-> op, ret |-> o.ret, c_ret |-> o.c_ret, err |-> o.err,
                 methods0 |-> methods, merger0 |-> merger, module0 |-> module,
                 prelude_code0 |-> prelude_code, calls0 |-> calls]
    /\ nreq' = nreq + 1
    /\ UNCHANGED <<intrinsics, panicked, ilast, supported>>

\* VectorExt for CGenerator: each method hands the request to the Vector
\* instance of the element type.
VectorExt_gen_new == Request("gen_new", Vector_gen_new_emit(Current))
VectorExt_gen_clone == Request("gen_clone", Vector_gen_clone_emit(Current))
VectorExt_gen_at == Request("gen_at", Vector_gen_at_emit(Current))
VectorExt_c_gen_at == Request("c_gen_at", Vector_c_gen_at_emit(Current))
VectorExt_gen_vat == Request("gen_vat", Vector_gen_vat_emit(Current))
VectorExt_gen_size == Request("gen_size", Vector_gen_size_emit(Current))
VectorExt_c_gen_size == Request("c_gen_size", Vector_c_gen_size_emit(Current))
VectorExt_gen_extend == Request("gen_extend", Vector_gen_extend_emit(Current))
\* gen_slice has no method in VectorExt: it is requested of the Vector
\* instance itself.
VectorRequest_gen_slice == Request("gen_slice", Vector_gen_slice_emit(Current))

\* Requests to the Merger instance.
MergerRequest_gen_new == Request("merger.gen_new", Merger_gen_new_emit(Current))
MergerRequest_gen_merge ==
    \E vectorized \in BOOLEAN :
       Request(IF vectorized THEN "merger.gen_vmerge" ELSE "merger.gen_merge",
               Merger_gen_merge_emit(Current, vectorized))
MergerRequest_gen_result == Request("merger.gen_result", Merger_gen_result_emit(Current))

\* After Intrinsics::defaults, Vector::define and Merger::define.
GInit ==
    /\ intrinsics = Intrinsics_defaults.intrinsics
    /\ module = Intrinsics_defaults.module
    /\ prelude_code = Vector_define_prelude(Intrinsics_defaults.prelude_code)
    /\ calls = <<>>
    /\ panicked = FALSE
    /\ ilast = NoRegistryOp
    /\ methods = Vector_define
    /\ merger = Merger_define
    /\ glast = NoRequest
    /\ nreq = 0
    /\ supported = [identity |-> TRUE, binop |-> TRUE]
    /\ unfinished = {}

\* The same, for a Merger instance of any operator and kind: binop_identity
\* and gen_binop each return Ok or Err for it.
GInitAny ==
    /\ intrinsics = Intrinsics_defaults.intrinsics
    /\ module = Intrinsics_defaults.module
    /\ prelude_code = Vector_define_prelude(Intrinsics_defaults.prelude_code)
    /\ calls = <<>>
    /\ panicked = FALSE
    /\ ilast = NoRegistryOp
    /\ methods = Vector_define
    /\ merger = Merger_define
    /\ glast = NoRequest
    /\ nreq = 0
    /\ supported \in [identity : BOOLEAN, binop : BOOLEAN]
    /\ unfinished = {}

GNext ==
    \/ VectorExt_gen_new
    \/ VectorExt_gen_clone
    \/ VectorExt_gen_at
    \/ VectorExt_c_gen_at
    \/ VectorExt_gen_vat
    \/ VectorExt_gen_size
    \/ VectorExt_c_gen_size
    \/ VectorRequest_gen_slice
    \/ VectorExt_gen_extend
    \/ MergerRequest_gen_new
    \/ MergerRequest_gen_merge
    \/ MergerRequest_gen_result

(***************************************************************************)
(* Actions: the host and the generated code call the run intrinsics.       *)
(***************************************************************************)
\* The arguments the host gives init: worker count and memory limit.
RunInputs == {<<1, LowMemLimit>>, <<2, MemLimit>>}
\* The sizes the generated code asks the allocator for.
AllocSizes == {0, 2, 5}
\* The codes the generated code gives set_errno.
ErrnoInputs == {ArrayOutOfBounds, AssertionError}

NoRun == [errno |-> 0, result |-> 0, nworkers |-> 0, memlimit |-> 0, allocated |-> 0]
NoRunCall ==
    [op |-> "none", a |-> 0, b |-> 0, p |-> NullPtr, ret |-> 0, ptr |-> NullPtr,
     run0 |-> NoRun, heap0 |-> <<>>, phase0 |-> "host"]

\* Where the caller is after a call of the intrinsic returns, or does not.
AfterCall(name) == IF NoReturn(name) THEN "halted" ELSE "running"

\* The pointers to the start of a live block.
LivePtrs(hp) == {[blk |-> b, off |-> 0] : b \in {a \in DOMAIN hp : hp[a].live}}

RunCall(rec) ==
    /\ nops < MaxRunCalls
    /\ nops' = nops + 1
    /\ rlast' = [rec EXCEPT !.run0 = run, !.heap0 = heap, !.phase0 = phase]
    /\ UNCHANGED <<elem_size, vecs, vlast>>

Run_init ==
    /\ phase = "host"
    /\ \E in \in RunInputs :
         /\ run' = weld_runst_init(in[1], in[2])
         /\ RunCall([NoRunCall EXCEPT !.op = "init", !.a = in[1], !.b = in[2]])
    /\ phase' = AfterCall("weld_runst_init")
    /\ UNCHANGED heap

Run_malloc ==
    /\ phase = "running"
    /\ \E size \in AllocSizes :
         \E o \in weld_runst_malloc(run, heap, size) :
            /\ Len(o.heap) <= MaxAddr
            /\ run' = o.run
            /\ heap' = o.heap
            /\ RunCall([NoRunCall EXCEPT !.op = "malloc", !.a = size, !.ptr = o.ptr])
    /\ phase' = AfterCall("weld_runst_malloc")

Run_realloc ==
    /\ phase = "running"
    /\ \E p \in LivePtrs(heap), size \in AllocSizes :
         \E o \in weld_runst_realloc(run, heap, p, size) :
            /\ Len(o.heap) <= MaxAddr
            /\ run' = o.run
            /\ heap' = o.heap
            /\ RunCall([NoRunCall EXCEPT !.op = "realloc", !.a = size, !.p = p,
                                         !.ptr = o.ptr])
    /\ phase' = AfterCall("weld_runst_realloc")

Run_free ==
    /\ phase = "running"
    /\ \E p \in LivePtrs(heap) :
         LET o == weld_runst_free(run, heap, p)
         IN  /\ run' = o.run
             /\ heap' = o.heap
             /\ RunCall([NoRunCall EXCEPT !.op = "free", !.p = p])
    /\ phase' = AfterCall("weld_runst_free")

Run_set_errno ==
    /\ phase = "running"
    /\ \E errno \in ErrnoInputs :
         /\ run' = weld_runst_set_errno(run, errno)
         /\ RunCall([NoRunCall EXCEPT !.op = "set_errno", !.a = errno])
    /\ phase' = AfterCall("weld_runst_set_errno")
    /\ UNCHANGED heap

\* The host reads the errno slot once the run exists, also after the
\* generated code has stopped.
Run_get_errno ==
    /\ phase \in {"running", "halted"}
    /\ RunCall([NoRunCall EXCEPT !.op = "get_errno", !.ret = weld_runst_get_errno(run)])
    /\ UNCHANGED <<run, heap, phase>>

\* Before the host creates the run.
RInit ==
    /\ elem_size = 1
    /\ run = NoRun
    /\ heap = <<>>
    /\ vecs = [i \in Regs |-> NoVec]
    /\ vlast = NoOp
    /\ nops = 0
    /\ phase = "host"
    /\ rlast = NoRunCall

RNext ==
    \/ Run_init
    \/ Run_malloc
    \/ Run_realloc
    \/ Run_free
    \/ Run_set_errno
    \/ Run_get_errno

(***************************************************************************)
(* Specifications: one per component.                                      *)
(***************************************************************************)
\* A component that does not run stays in its initial state.
VIdle ==
    /\ elem_size = 1
    /\ run = weld_runst_init(1, MemLimit)
    /\ heap = <<>>
    /\ vecs = [i \in Regs |-> NoVec]
    /\ vlast = NoOp
    /\ nops = 0
MIdle ==
    /\ m_op = "Add"
    /\ m_kind = "I"
    /\ mg = NoMerger
    /\ mhist = [init |-> 0, merged |-> <<>>]
    /\ mlast = NoMergerOp
RIdle ==
    /\ phase = "running"
    /\ rlast = NoRunCall
GIdle ==
    /\ methods = Vector_define
    /\ merger = Merger_define
    /\ glast = NoRequest
    /\ nreq = 0
    /\ supported = [identity |-> TRUE, binop |-> TRUE]
    /\ unfinished = {}
CIdle ==
    /\ threads = [t \in Threads |-> NoThread]
NIdle ==
    /\ nlast = NoNumeric

\* The vector routines at run time.
Init == VInit /\ MIdle /\ IInit /\ GIdle /\ RIdle /\ CIdle /\ NIdle
Next == VNext /\ UNCHANGED <<mvars, ivars, gvars, rvars, cvars, nvars>>
Spec == Init /\ [][Next]_vars

\* The merger routines at run time.
MergerInit == MInit /\ VIdle /\ IInit /\ GIdle /\ RIdle /\ CIdle /\ NIdle
MergerNext == MNext /\ UNCHANGED <<vvars, ivars, gvars, rvars, cvars, nvars>>
MergerSpec == MergerInit /\ [][MergerNext]_vars

\* The intrinsics registry at code generation time.
IntrinsicsInit == IInit /\ VIdle /\ MIdle /\ GIdle /\ RIdle /\ CIdle /\ NIdle
IntrinsicsNext == INext /\ UNCHANGED <<vvars, mvars, gvars, rvars, cvars, nvars>>
IntrinsicsSpec == IntrinsicsInit /\ [][IntrinsicsNext]_vars

\* The vector routines at run time, under a low memory limit.
LowMemInit == VInitLowMem /\ MIdle /\ IInit /\ GIdle /\ RIdle /\ CIdle /\ NIdle
LowMemSpec == LowMemInit /\ [][Next]_vars

\* The vector routines at run time, over the whole range of the size word.
WideNext == VNextWide /\ UNCHANGED <<mvars, ivars, gvars, rvars, cvars, nvars>>
WideSpec == Init /\ [][WideNext]_vars

\* Two threads merging into one merger.
ThreadsInit == CInit /\ VIdle /\ IInit /\ GIdle /\ RIdle /\ NIdle
ThreadsNext == CNext /\ UNCHANGED <<vvars, ivars, gvars, rvars, nvars>>
ThreadsSpec == ThreadsInit /\ [][ThreadsNext]_vars

\* The names of numeric intrinsics.
NumericInit == NInit /\ VIdle /\ MIdle /\ IInit /\ GIdle /\ RIdle /\ CIdle
NumericNext == NNext /\ UNCHANGED <<vvars, mvars, ivars, gvars, rvars, cvars>>
NumericSpec == NumericInit /\ [][NumericNext]_vars

\* The Vector and Merger generators at code generation time.
GenInit == GInit /\ VIdle /\ MIdle /\ RIdle /\ CIdle /\ NIdle

\* The run context under direct calls of its intrinsics.
RuntimeInit == RInit /\ MIdle /\ IInit /\ GIdle /\ CIdle /\ NIdle
RuntimeNext == RNext /\ UNCHANGED <<mvars, ivars, gvars, cvars, nvars>>
RuntimeSpec == RuntimeInit /\ [][RuntimeNext]_vars
GenNext == GNext /\ UNCHANGED <<vvars, mvars, rvars, cvars, nvars>>
GenSpec == GenInit /\ [][GenNext]_vars

\* The generators, for a Merger instance whose synthesis may fail.
GenAnyInit == GInitAny /\ VIdle /\ MIdle /\ RIdle /\ CIdle /\ NIdle
GenAnySpec == GenAnyInit /\ [][GenNext]_vars

(***************************************************************************)
(* Properties of the generated vector routines.                            *)
(***************************************************************************)
\* The bytes of v's first element..n-th element, written out by address.
Bytes(hp, v, n) ==
    [i \in 1..(n * elem_size) |-> hp[v.ptr.blk].bytes[v.ptr.off + i]]

\* C1: extend(v, s, run): if s <= size(v) the input vector is returned
\* unchanged (same pointer, same size) and the allocator is not called; if
\* s > size(v) the storage is reallocated once through the run's realloc and
\* the result has size exactly s with the first size(v) elements equal to
\* v's original content.
C1_ExtendContract ==
    vlast.op = "extend" =>
        IF vlast.size <= vlast.v.size
        THEN /\ vlast.res = vlast.v
             /\ vlast.nmalloc = 0 /\ vlast.nrealloc = 0
             /\ heap = vlast.heap0 /\ run = vlast.run0
        ELSE /\ vlast.nrealloc = 1 /\ vlast.nmalloc = 0
             /\ vlast.res.size = vlast.size
             /\ Bytes(heap, vlast.res, vlast.v.size)
                  = Bytes(vlast.heap0, vlast.v, vlast.v.size)

\* A vector of 3 elements with a stored element was grown by realloc.
C1_Witness ==
    /\ vlast.op = "extend"
    /\ vlast.v.size = 3 /\ vlast.size = 5
    /\ vlast.res.ptr # vlast.v.ptr
    /\ \E i \in 1..(3 * elem_size) : Bytes(heap, vlast.res, 3)[i] # Uninit

\* The largest of n and the first k requested sizes.
RECURSIVE MaxRequested(_, _, _)
MaxRequested(n, reqs, k) ==
    IF k = 0 THEN n ELSE Max(MaxRequested(n, reqs, k - 1), reqs[k])

\* C2: for any sequence of extend calls applied to a vector created by
\* new(n), the size after each call equals the maximum of n and all sizes
\* requested so far (it never decreases) and the original n elements stay at
\* the front; new(5), extend(3), extend(8) gives sizes 5, 5, 8.
C2_ExtendSequence ==
    \A r \in Regs :
        (vecs[r].held /\ vecs[r].lin # NoLin) =>
            LET lin == vecs[r].lin
            IN  /\ Len(lin.sizes) = Len(lin.reqs) + 1
                /\ \A k \in 1..Len(lin.sizes) :
                      lin.sizes[k] = MaxRequested(lin.n, lin.reqs, k - 1)
                /\ \A k \in 2..Len(lin.sizes) : lin.sizes[k] >= lin.sizes[k - 1]
                /\ vecs[r].v.size = lin.sizes[Len(lin.sizes)]
                /\ (lin.n = 5 /\ lin.reqs = <<3, 8>>) => lin.sizes = <<5, 5, 8>>
                /\ (vlast.op = "extend" /\ vlast.res = vecs[r].v /\ Len(lin.reqs) > 0
                      /\ Valid(heap, elem_size, vecs[r].v))
                     => Bytes(heap, vecs[r].v, lin.n) = Bytes(vlast.heap0, vlast.v, lin.n)

\* new(5), extend(3), extend(8) has happened.
C2_Witness ==
    \E r \in Regs :
        /\ vecs[r].held
        /\ vecs[r].lin = [n |-> 5, reqs |-> <<3, 8>>, sizes |-> <<5, 5, 8>>]
        /\ vlast.op = "extend"

\* C3: for every element type and every size n >= 0, size(new(n, run)) = n.
C3_SizeOfNew ==
    vlast.op = "new" => Vector_define_size(vlast.res) = vlast.size

\* new(5) on a vector of 2-byte elements.
C3_Witness ==
    vlast.op = "new" /\ vlast.size = 5 /\ elem_size = 2 /\ vlast.res.size = 5

\* C4: slice(v, i, s) for 0 <= i <= size(v) returns, without allocating, a
\* vector whose pointer is v's base advanced by i elements and whose length
\* is min(s, size(v) - i).
C4_Slice ==
    (vlast.op = "slice" /\ vlast.index <= vlast.v.size) =>
        /\ vlast.res.ptr.blk = vlast.v.ptr.blk
        /\ vlast.res.ptr.off = vlast.v.ptr.off + vlast.index * elem_size
        /\ vlast.res.size = Min(vlast.size, vlast.v.size - vlast.index)
        /\ vlast.nmalloc = 0 /\ vlast.nrealloc = 0
        /\ heap = vlast.heap0 /\ run = vlast.run0

\* slice(v, 2, 8) of a vector of 5 elements is clamped to 3 elements.
C4_Witness ==
    /\ vlast.op = "slice"
    /\ vlast.v.size = 5 /\ vlast.index = 2 /\ vlast.size = 8
    /\ vlast.res.size = 3

\* C5: clone(v, run) returns a vector with the same length as v whose
\* length * elementSize bytes equal v's, held in storage freshly obtained
\* from the run's malloc at an address distinct from v's when size(v) > 0, so
\* a later write through one vector is not visible through the other.
C5_Clone ==
    /\ vlast.op = "clone" =>
          /\ vlast.res.size = vlast.v.size
          /\ vlast.nmalloc = 1 /\ vlast.nrealloc = 0
          /\ Bytes(heap, vlast.res, vlast.v.size)
               = Bytes(vlast.heap0, vlast.v, vlast.v.size)
          /\ vlast.v.size > 0 =>
                /\ vlast.res.ptr.blk # vlast.v.ptr.blk
                /\ vlast.res.ptr.blk > Len(vlast.heap0)
                /\ vlast.res.ptr.off = 0
                /\ Len(heap[vlast.res.ptr.blk].bytes) = vlast.v.size * elem_size
    /\ vlast.op = "write" =>
          \A r \in Regs :
             (/\ vecs[r].held /\ vecs[r].src.is /\ vecs[r].v.size > 0
              /\ Valid(heap, elem_size, vecs[r].v)
              /\ Valid(heap, elem_size, vecs[r].src.v)) =>
                /\ vlast.v = vecs[r].src.v =>
                      Bytes(heap, vecs[r].v, vecs[r].v.size)
                        = Bytes(vlast.heap0, vecs[r].v, vecs[r].v.size)
                /\ vlast.v = vecs[r].v =>
                      Bytes(heap, vecs[r].src.v, vecs[r].src.v.size)
                        = Bytes(vlast.heap0, vecs[r].src.v, vecs[r].src.v.size)

\* A store through the source of a clone: the two now differ.
C5_Witness ==
    /\ vlast.op = "write"
    /\ \E r \in Regs :
          /\ vecs[r].held /\ vecs[r].src.is /\ vecs[r].v.size > 0
          /\ vlast.v = vecs[r].src.v
          /\ Valid(heap, elem_size, vecs[r].v)
          /\ Valid(heap, elem_size, vecs[r].src.v)
          /\ Bytes(heap, vecs[r].v, vecs[r].v.size)
               # Bytes(heap, vecs[r].src.v, vecs[r].v.size)

(***************************************************************************)
(* Properties of the generated merger routines.                            *)
(***************************************************************************)
\* C6 as stated: new(initElement) returns a merger whose scalar lane and all
\* WIDTH lanes of the vector accumulator are seeded with the operator's
\* identity.
C6_AllLanesIdentity ==
    mlast.op = "new" =>
        /\ Field(mg, SCALAR_INDEX).lanes = <<binop_identity(m_op, m_kind)>>
        /\ \A i \in 1..LLVM_VECTOR_WIDTH :
              Field(mg, VECTOR_INDEX).lanes[i] = binop_identity(m_op, m_kind)

\* C6 amended: new(initElement) returns a merger whose scalar lane holds
\* initElement and whose WIDTH vector lanes all hold the operator's identity
\* (0 for add, 1 for multiply, the kind's extreme value for min/max).
C6_NewSeeds ==
    mlast.op = "new" =>
        /\ Field(mg, SCALAR_INDEX).lanes = mlast.arg.lanes
        /\ Len(Field(mg, VECTOR_INDEX).lanes) = LLVM_VECTOR_WIDTH
        /\ \A i \in 1..LLVM_VECTOR_WIDTH :
              Field(mg, VECTOR_INDEX).lanes[i] =
                 CASE m_op = "Add" -> 0
                   [] m_op = "Multiply" -> 1
                   [] m_op = "Min" -> KindMax(m_kind)
                   [] m_op = "Max" -> KindMin(m_kind)

\* new was given an element that is not the identity of min.
C6_Witness ==
    /\ mlast.op = "new"
    /\ m_op = "Min" /\ m_kind = "I"
    /\ mlast.arg.lanes[1] = 2
    /\ Field(mg, SCALAR_INDEX).lanes[1] = 2
    /\ Field(mg, VECTOR_INDEX).lanes[1] = KindMax("I")

\* All lanes of all merged values, in the order of the calls.
RECURSIVE Flatten(_)
Flatten(merged) ==
    IF merged = <<>> THEN <<>> ELSE Head(merged).lanes \o Flatten(Tail(merged))

Count(seq, x) == Cardinality({i \in DOMAIN seq : seq[i] = x})

\* acc combined c times with x.
RECURSIVE Times(_, _, _, _, _)
Times(op, kind, acc, x, c) ==
    IF c = 0 THEN acc ELSE Times(op, kind, LaneOp(op, kind, acc, x), x, c - 1)

\* The fold of a bag of values: the values taken in ascending order, which
\* depends on the values merged and not on the order of the calls.
RECURSIVE FoldAscending(_, _, _, _, _, _)
FoldAscending(op, kind, acc, flat, x, hi) ==
    IF x > hi THEN acc
    ELSE FoldAscending(op, kind, Times(op, kind, acc, x, Count(flat, x)),
                       flat, x + 1, hi)

\* The merges of the example: 1, 2, 3 and the batch [4,5,6,7], in any order.
IsExample(merged) ==
    /\ Len(merged) = 4
    /\ \A x \in 1..7 : Count(Flatten(merged), x) = 1

\* C7: merger monoid law: for an integer element kind and operator add, a
\* merger seeded with identity 0 that receives scalar merges of 1, 2, 3 and
\* one vector merge of [4,5,6,7] returns result = 28 for every interleaving;
\* in general result equals the operator fold of all merged scalars and all
\* lanes of all merged batches, independent of the order of the calls.
C7_MonoidLaw ==
    (/\ mlast.op = "result"
     /\ m_kind \in IntegerKinds
     /\ mhist.init = binop_identity(m_op, m_kind)) =>
        /\ mlast.value =
              FoldAscending(m_op, m_kind, binop_identity(m_op, m_kind),
                            Flatten(mhist.merged), 0, 7)
        /\ (m_op = "Add" /\ IsExample(mhist.merged)) => mlast.value = 28

\* The example with the batch merged between the scalars.
C7_Witness ==
    /\ mlast.op = "result"
    /\ m_op = "Add" /\ m_kind = "I"
    /\ mhist.init = 0
    /\ IsExample(mhist.merged)
    /\ mhist.merged[2].vectorized
    /\ mlast.value = 28

\* The operator applied from the left over a sequence of values.
RECURSIVE FoldLeft(_, _, _)
FoldLeft(op, kind, seq) ==
    IF Len(seq) = 1 THEN seq[1]
    ELSE LaneOp(op, kind, FoldLeft(op, kind, SubSeq(seq, 1, Len(seq) - 1)),
                seq[Len(seq)])

\* C8: result starts from the scalar lane and combines it with vector lanes
\* 0, 1, ..., WIDTH-1 in that ascending order, each step computing
\* op(accumulated, lane i), and returns the final accumulated value.
C8_ResultOrder ==
    mlast.op = "result" =>
        mlast.value =
            FoldLeft(m_op, m_kind,
                     Field(mlast.before, SCALAR_INDEX).lanes
                        \o Field(mlast.before, VECTOR_INDEX).lanes)

\* A result of a floating merger for which the order of the lanes matters.
C8_Witness ==
    /\ mlast.op = "result"
    /\ m_kind = "F"
    /\ \E i \in 1..Len(mhist.merged) : mhist.merged[i].vectorized
    /\ mlast.value # Merger_gen_result_descending(m_op, m_kind, mlast.before)

(***************************************************************************)
(* Properties of the intrinsics registry.                                  *)
(***************************************************************************)
\* The number of parameters of the function declared under a name.
DeclaredCount(md, name) ==
    md[CHOOSE f \in DOMAIN md : md[f].name = name].nparams

\* C9: call(name, args) emits a call and returns a value only when name is
\* registered and the number of args equals the registered signature's
\* parameter count; for an unknown name or a count mismatch it panics, emits
\* no call and never truncates or pads the arguments.
C9_CallChecksArity ==
    /\ ilast.op = "call" =>
          IF /\ ilast.name \in DOMAIN ilast.before
             /\ Len(ilast.args) = DeclaredCount(ilast.module0, ilast.name)
          THEN /\ ~panicked
               /\ calls = Append(ilast.calls0,
                                 [func |-> ilast.before[ilast.name].value,
                                  args |-> ilast.args])
               /\ ilast.ret = Len(calls)
          ELSE /\ panicked
               /\ calls = ilast.calls0
    /\ \A c \in DOMAIN calls :
          Len(calls[c].args) = module[calls[c].func].nparams

\* A registered intrinsic was called with one argument too many.
C9_Witness ==
    /\ ilast.op = "call"
    /\ ilast.name = "weld_runst_malloc"
    /\ Len(ilast.args) = 3
    /\ panicked
    /\ calls = <<>>

\* C10: add(name, returnType, argTypes) returns true and registers name as a
\* builtin exactly when name was not registered before; when name is already
\* registered (including a default function-pointer intrinsic) it returns
\* false and leaves the registry unchanged: the existing entry keeps its
\* handle and its kind, and get(name) returns the same handle as before.
C10_AddOnce ==
    ilast.op = "add" =>
        IF ilast.name \notin DOMAIN ilast.before
        THEN /\ ilast.ret = 1
             /\ DOMAIN intrinsics = DOMAIN ilast.before \cup {ilast.name}
             /\ intrinsics[ilast.name].kind = "Builtin"
             /\ module[intrinsics[ilast.name].value]
                  = [name |-> ilast.name, nparams |-> Len(ilast.args)]
             /\ \A n \in DOMAIN ilast.before : intrinsics[n] = ilast.before[n]
        ELSE /\ ilast.ret = 0
             /\ DOMAIN intrinsics = DOMAIN ilast.before
             /\ \A n \in DOMAIN ilast.before : intrinsics[n] = ilast.before[n]
             /\ module = ilast.module0
             /\ Intrinsics_get(intrinsics, ilast.name)
                  = Intrinsics_get(ilast.before, ilast.name)

\* add was called with the name of a default function-pointer intrinsic.
C10_Witness ==
    /\ ilast.op = "add"
    /\ ilast.name = "weld_runst_malloc"
    /\ ilast.ret = 0
    /\ intrinsics["weld_runst_malloc"].kind = "FunctionPointer"
    /\ intrinsics["weld_runst_malloc"].value = 4

\* The ten functions of the run API.
WeldRunstNames ==
    {"weld_runst_init", "weld_runst_get_result", "weld_runst_set_result",
     "weld_runst_malloc", "weld_runst_realloc", "weld_runst_free",
     "weld_runst_get_errno", "weld_runst_set_errno", "weld_runst_assert",
     "weld_runst_print"}

\* C11: after defaults() and any sequence of add calls, mappings() holds
\* exactly one (name, host function pointer) pair for each of the ten
\* weld_runst_* intrinsics and no pair for memcpy, memset or a name that add
\* registered.
C11_Mappings ==
    LET m == Intrinsics_mappings(intrinsics)
    IN  /\ Len(m) = 10
        /\ \A name \in WeldRunstNames : Count(m, <<name, name>>) = 1
        /\ \A i \in DOMAIN m : m[i][1] \in WeldRunstNames

\* An add has registered a new name, so the registry holds a builtin that
\* populate_defaults did not put there.
C11_Witness ==
    /\ ilast.op = "add"
    /\ ilast.ret = 1
    /\ ilast.name \in OtherNames
    /\ ilast.name \in DOMAIN intrinsics
    /\ Len(Intrinsics_mappings(intrinsics)) = 10

(***************************************************************************)
(* Properties of what code generation emits.                               *)
(***************************************************************************)
\* The module holds a function of that name.
InModule(md, name) == \E i \in DOMAIN md : md[i].name = name
\* The prelude holds a textual definition of a function of that name.
InPrelude(pc, name) == \E j \in DOMAIN pc : pc[j] = FunctionText(name)

\* C12: every default intrinsic installed by populate_defaults is emitted
\* twice: as a native declaration in the module and as a textual definition
\* in the shared prelude.
C12_DefaultsDualEmit ==
    \A name \in DefaultNames :
       InModule(module, name) /\ InPrelude(prelude_code, name)

\* The routines the Vector and the Merger generator can build.
RoutineNames ==
    {"vec.new", "vec.clone", "vec_at", "vec.vat", "vec_size", "vec.slice",
     "vec.extend", "merger.new", "merger.merge", "merger.vmerge", "merger.result"}

\* C13: every routine the Vector generator and the Merger generator have
\* built has both a native unit in the module and a textual definition in
\* the prelude.
C13_RoutinesDualEmit ==
    \A name \in RoutineNames :
       InModule(module, name) <=> InPrelude(prelude_code, name)

\* The memo slot a request reads and fills.
Slot(op, ms, mr) ==
    CASE op = "gen_new" -> ms.new
      [] op = "gen_clone" -> ms.clone
      [] op \in {"gen_at", "c_gen_at"} -> ms.at
      [] op = "gen_vat" -> ms.vat
      [] op \in {"gen_size", "c_gen_size"} -> ms.size
      [] op = "gen_slice" -> ms.slice
      [] op = "gen_extend" -> ms.extend
      [] op = "merger.gen_new" -> mr.new
      [] op = "merger.gen_merge" -> mr.merge
      [] op = "merger.gen_vmerge" -> mr.vmerge
      [] op = "merger.gen_result" -> mr.result
      [] OTHER -> None
RequestOps ==
    {"gen_new", "gen_clone", "gen_at", "c_gen_at", "gen_vat", "gen_size",
     "c_gen_size", "gen_slice", "gen_extend", "merger.gen_new",
     "merger.gen_merge", "merger.gen_vmerge", "merger.gen_result"}

\* C14: each routine is synthesized at most once, on its first request; a
\* later request adds nothing to the module or the prelude and emits only a
\* call of the cached routine; gen_at / c_gen_at and gen_size / c_gen_size
\* use one definition each.
C14_Memoized ==
    /\ \A i, j \in DOMAIN module : module[i].name = module[j].name => i = j
    /\ \A i, j \in DOMAIN prelude_code : prelude_code[i] = prelude_code[j] => i = j
    /\ glast.op # "none" =>
         LET before == Slot(glast.op, glast.methods0, glast.merger0)
             after == Slot(glast.op, methods, merger)
         IN  /\ after # None
             /\ before # None =>
                  /\ after = before
                  /\ module = glast.module0
                  /\ prelude_code = glast.prelude_code0
             /\ before = None =>
                  /\ Len(module) = Len(glast.module0) + 1
                  /\ after = Len(module)
             /\ \A op \in RequestOps :
                  Slot(op, methods, merger) # Slot(op, glast.methods0, glast.merger0)
                     => Slot(op, methods, merger) = after
             /\ IF glast.op \in {"c_gen_at", "c_gen_size"}
                THEN /\ calls = glast.calls0
                     /\ glast.c_ret = module[after].name
                ELSE /\ Len(calls) = Len(glast.calls0) + 1
                     /\ SubSeq(calls, 1, Len(glast.calls0)) = glast.calls0
                     /\ calls[Len(calls)].func = after
                     /\ glast.ret = Len(calls)

\* gen_at is requested after c_gen_at has built the routine: no call
\* instruction had been emitted yet, and the slot was already filled.
C14_Witness ==
    /\ glast.op = "gen_at"
    /\ glast.methods0.at # None
    /\ glast.calls0 = <<>>
    /\ calls[1].func = glast.methods0.at
    /\ module = glast.module0

(***************************************************************************)
(* Properties of the run context and of the vectors it owns.               *)
(***************************************************************************)
\* C15: the vector a new, clone, slice or extend returns has a non-null
\* pointer whenever its length is > 0, and its pointer is the start of a
\* live allocation of the run of exactly length * elementSize bytes.
C15_VectorInvariant ==
    vlast.op \in {"new", "clone", "slice", "extend"} =>
       LET v == vlast.res
       IN  /\ v.size > 0 => v.ptr.blk # 0
           /\ v.ptr.blk # 0 =>
                /\ v.ptr.blk <= Len(heap)
                /\ heap[v.ptr.blk].live
                /\ v.ptr.off = 0
                /\ Len(heap[v.ptr.blk].bytes) = v.size * elem_size

\* C16: init(workerCount, memoryLimit) returns a run context whose errno is
\* Success, whose result is null, whose allocated is 0, and whose nworkers
\* and memlimit are the two arguments.
C16_Init ==
    rlast.op = "init" =>
       /\ run.errno = Success
       /\ run.result = 0
       /\ weld_runst_get_result(run) = 0
       /\ run.allocated = 0
       /\ run.nworkers = rlast.a
       /\ run.memlimit = rlast.b

\* init was called with a worker count and a limit that differ.
C16_Witness ==
    /\ rlast.op = "init"
    /\ rlast.a = 2
    /\ rlast.b = MemLimit
    /\ run.memlimit = MemLimit
    /\ phase = "running"

\* The bytes of the live blocks of the heap.
RECURSIVE LiveBytes(_, _)
LiveBytes(hp, k) ==
    IF k = 0 THEN 0
    ELSE (IF hp[k].live THEN Len(hp[k].bytes) ELSE 0) + LiveBytes(hp, k - 1)

\* C17: after any sequence of malloc, realloc and free the allocated-bytes
\* counter is the sum of the sizes of the live allocations: malloc adds the
\* size, free subtracts the size of the freed block, realloc changes the
\* counter by the size difference; with no live block the counter is 0.
C17_Allocated ==
    /\ phase # "host" => run.allocated = LiveBytes(heap, Len(heap))
    /\ (rlast.op = "malloc" /\ rlast.ptr.blk # 0) =>
          run.allocated = rlast.run0.allocated + rlast.a
    /\ (rlast.op = "realloc" /\ rlast.ptr.blk # 0) =>
          run.allocated = rlast.run0.allocated
                            - Len(rlast.heap0[rlast.p.blk].bytes) + rlast.a
    /\ rlast.op = "free" =>
          run.allocated = rlast.run0.allocated - Len(rlast.heap0[rlast.p.blk].bytes)
    /\ (phase # "host" /\ \A a \in DOMAIN heap : ~heap[a].live) => run.allocated = 0

\* The last live block was freed after a malloc and a realloc that moved it
\* and made it 5 bytes: the counter is back to 0.
C17_Witness ==
    /\ rlast.op = "free"
    /\ rlast.run0.allocated > 0
    /\ Len(rlast.heap0[rlast.p.blk].bytes) = 5
    /\ Len(heap) = 2
    /\ \A a \in DOMAIN heap : ~heap[a].live
    /\ run.allocated = 0

C19_SetErrno ==
    /\ [](rlast.op = "set_errno" => run.errno = rlast.a /\ phase = "halted")
    /\ [][phase = "halted" =>
            /\ run' = run
            /\ heap' = heap
            /\ phase' = "halted"
            /\ rlast'.op = "get_errno"
            /\ rlast'.ret = run.errno]_vars

\* The host read the code after set_errno stopped the generated code.
C19_Witness ==
    /\ rlast.op = "get_errno"
    /\ rlast.phase0 = "halted"
    /\ rlast.ret = AssertionError
    /\ run.errno = AssertionError

\* C20: the error codes are Success = 0 ... AssertionError = 12, pairwise
\* distinct, every code but Success is greater than 0 and less than
\* ErrnoMax = 13, and get_errno returns one of them.
C20_ErrnoCodes ==
    /\ Success = 0 /\ ConfigurationError = 1 /\ LoadLibraryError = 2
    /\ CompileError = 3 /\ ArrayOutOfBounds = 4 /\ BadIteratorLength = 5
    /\ MismatchedZipSize = 6 /\ OutOfMemory = 7 /\ RunNotFound = 8
    /\ Unknown = 9 /\ DeserializationError = 10 /\ KeyNotFoundError = 11
    /\ AssertionError = 12 /\ ErrnoMax = 13
    /\ Len(WeldRuntimeErrno) = 13
    /\ \A i, j \in DOMAIN WeldRuntimeErrno :
          WeldRuntimeErrno[i] = WeldRuntimeErrno[j] => i = j
    /\ \A i \in DOMAIN WeldRuntimeErrno :
          WeldRuntimeErrno[i] # Success =>
             WeldRuntimeErrno[i] > 0 /\ WeldRuntimeErrno[i] < ErrnoMax
    /\ rlast.op = "get_errno" =>
          \E i \in DOMAIN WeldRuntimeErrno : rlast.ret = WeldRuntimeErrno[i]

\* get_errno returned the code a malloc over the limit left in the slot.
C20_Witness ==
    /\ rlast.op = "get_errno"
    /\ rlast.ret = OutOfMemory
    /\ rlast.ret = 7

(***************************************************************************)
(* Properties over the whole range of the size word.                       *)
(***************************************************************************)
\* The block behind the vector the last call returned.
ResultBlock == heap[vlast.res.ptr.blk].bytes

\* C21: the byte count new, clone and extend request from the allocator is
\* the element count times the element size, never that product reduced
\* modulo the word: the block a call obtained holds exactly as many
\* elements as the length field of the vector it returned.
C21_ByteCount ==
    /\ (vlast.op \in {"new", "clone"} /\ vlast.res.ptr.blk # 0)
          => Len(ResultBlock) = vlast.res.size * elem_size
    /\ (vlast.op = "extend" /\ vlast.nrealloc = 1 /\ vlast.res.ptr.blk # 0)
          => Len(ResultBlock) = vlast.res.size * elem_size

(***************************************************************************)
(* Further properties of the generated merger routines.                    *)
(***************************************************************************)
\* A batch holding x in lane `lane` and the operator's identity elsewhere.
OneLane(x, lane) ==
    SimdValue([i \in 1..LLVM_VECTOR_WIDTH |->
                 IF i = lane THEN x ELSE binop_identity(m_op, m_kind)])

\* For integer kinds the scalar merge just made contributes to result what
\* a vmerge of a batch with its value in one lane would have.
ScalarAsBatch ==
    (mlast.op = "merge" /\ m_kind \in IntegerKinds) =>
        \A lane \in 1..LLVM_VECTOR_WIDTH :
            Merger_gen_result(m_op, m_kind, mg)
              = Merger_gen_result(m_op, m_kind,
                    Merger_gen_merge(m_op, m_kind, mlast.before,
                                     OneLane(mlast.arg.lanes[1], lane)))

\* C22: every operator application of the Merger is given the width of the
\* values it combines: merge and result hand the scalar type to the operator
\* routine, vmerge the SIMD type, and the SIMD type is never applied to
\* scalar operands; hence for integer kinds a scalar merge of x contributes
\* to result what a vmerge of x in one lane and the identity in the others
\* contributes.
C22_WidthParameter ==
    /\ mlast.op \in {"merge", "result"} => mlast.ty = Scalar(m_kind)
    /\ mlast.op = "vmerge" => mlast.ty = Simd(m_kind)
    /\ ScalarAsBatch

\* The merges of a sequence of values made one call after the other.
RECURSIVE MergeAll(_, _)
MergeAll(m, values) ==
    IF values = <<>> THEN m
    ELSE MergeAll(Merger_gen_merge(m_op, m_kind, m, Head(values)), Tail(values))

Quiescent == \A t \in Threads : threads[t].pc = "idle"

\* C23: scalar merges and vmerges on one merger that run concurrently
\* without synchronization lose no update: whatever the interleaving of
\* their loads and stores, once the calls have returned the merger is the
\* one that running the same calls one after the other gives, in either
\* order of the two threads.
C23_NoLostUpdate ==
    Quiescent =>
        LET m0 == Merger_gen_new(m_op, m_kind, mhist.init)
        IN  /\ mg = MergeAll(MergeAll(m0, threads["merge"].done),
                             threads["vmerge"].done)
            /\ mg = MergeAll(MergeAll(m0, threads["vmerge"].done),
                             threads["merge"].done)

\* A merge loaded the scalar lane while a vmerge was between its load and
\* its store, both returned, and both lanes have changed.
C23_Witness ==
    /\ Quiescent
    /\ threads["merge"].raced
    /\ threads["merge"].done # <<>> /\ threads["vmerge"].done # <<>>
    /\ Field(mg, SCALAR_INDEX) # ScalarValue(mhist.init)
    /\ Field(mg, VECTOR_INDEX) # Field(Merger_gen_new(m_op, m_kind, mhist.init), VECTOR_INDEX)

\* C24: merge(mergerPtr, value) changes only the scalar lane, to
\* op(scalar lane, value), and leaves the vector lane unchanged;
\* vmerge(mergerPtr, batch) changes only the vector lane, lane i becoming
\* op(lane i, batch[i]) for every i in 0..WIDTH-1, and leaves the scalar
\* lane unchanged.
C24_MergeFrame ==
    /\ mlast.op = "merge" =>
          /\ Field(mg, SCALAR_INDEX)
               = ScalarValue(LaneOp(m_op, m_kind,
                                    Field(mlast.before, SCALAR_INDEX).lanes[1],
                                    mlast.arg.lanes[1]))
          /\ Field(mg, VECTOR_INDEX) = Field(mlast.before, VECTOR_INDEX)
    /\ mlast.op = "vmerge" =>
          /\ Field(mg, VECTOR_INDEX)
               = SimdValue([i \in 1..LLVM_VECTOR_WIDTH |->
                              LaneOp(m_op, m_kind,
                                     Field(mlast.before, VECTOR_INDEX).lanes[i],
                                     mlast.arg.lanes[i])])
          /\ Field(mg, SCALAR_INDEX) = Field(mlast.before, SCALAR_INDEX)

\* A vmerge changed the vector lane of a merger whose scalar lane an
\* earlier merge had changed.
C24_Witness ==
    /\ mlast.op = "vmerge"
    /\ Field(mg, VECTOR_INDEX) # Field(mlast.before, VECTOR_INDEX)
    /\ Field(mg, SCALAR_INDEX) # ScalarValue(mhist.init)
    /\ \E k \in 1..Len(mhist.merged) : ~mhist.merged[k].vectorized

\* C25: extend treats sizes as the unsigned lengths size returns and slice
\* compares: for every pair of words (requestedSize, length), extend
\* reallocates exactly when requestedSize > length as unsigned integers,
\* and otherwise returns the input unchanged.
C25_ExtendUnsigned ==
    vlast.op = "extend" =>
        IF LLVMIntUGT(vlast.size, Vector_define_size(vlast.v))
        THEN vlast.nrealloc = 1
        ELSE vlast.nrealloc = 0 /\ vlast.res = vlast.v

(***************************************************************************)
(* Further properties of the generators.                                   *)
(***************************************************************************)
\* The functions the memo slots of the Merger instance hold.
MergerSlots(mr) == {mr.new, mr.merge, mr.vmerge, mr.result} \ {None}

\* C26: when synthesis of a Merger routine fails (binop_identity in new, or
\* the operator routine in merge, vmerge or result returns an error) the
\* request returns the error, emits no call site and leaves the routine's
\* memo slot empty; no memo slot and no call site ever refers to a function
\* whose body was abandoned.
C26_SynthesisFailure ==
    /\ glast.err =>
          /\ glast.ret = None
          /\ calls = glast.calls0
          /\ Slot(glast.op, methods, merger) = None
          /\ merger = glast.merger0 /\ methods = glast.methods0
    /\ MergerSlots(merger) \cap unfinished = {}
    /\ \A i \in DOMAIN calls : calls[i].func \notin unfinished

\* gen_new failed a second time, after a merge request had succeeded and
\* emitted its call.
C26_Witness ==
    /\ glast.err /\ glast.op = "merger.gen_new"
    /\ Cardinality(unfinished) = 2
    /\ Len(calls) = 1 /\ calls[1].func = merger.merge

(***************************************************************************)
(* Further properties of the intrinsics registry.                          *)
(***************************************************************************)
\* C27: after defaults(), across add, get, call, mappings and the wrappers
\* the registry only grows: an operation removes no name and leaves every
\* registered name its handle and its kind, the twelve default names keep
\* the entries populate_defaults gave them, and a wrapper finds its entry
\* and emits its call.
C27_RegistryGrows ==
    /\ \A name \in DefaultNames :
          /\ name \in DOMAIN intrinsics
          /\ intrinsics[name] = Intrinsics_defaults.intrinsics[name]
    /\ ilast.op # "none" =>
          \A name \in DOMAIN ilast.before :
             /\ name \in DOMAIN intrinsics
             /\ intrinsics[name] = ilast.before[name]
    /\ ilast.op = "wrapper" =>
          /\ ~panicked
          /\ Len(calls) = Len(ilast.calls0) + 1
          /\ calls[Len(calls)].func = Intrinsic_value(intrinsics[ilast.name])

\* A wrapper emitted its call after add had registered two more names.
C27_Witness ==
    /\ ilast.op = "wrapper"
    /\ OtherNames \subseteq DOMAIN intrinsics
    /\ calls # <<>>

\* C28: each convenience wrapper passes exactly as many arguments as the
\* parameter count of the signature populate_defaults registered under the
\* name the wrapper looks up.
C28_WrapperArity ==
    /\ \A w \in Wrappers :
          \E i \in DOMAIN DefaultIntrinsics :
             /\ DefaultIntrinsics[i].name = w.name
             /\ DefaultIntrinsics[i].nparams = w.nargs
    /\ ilast.op = "wrapper" =>
          LET call == calls[Len(calls)]
          IN  Len(call.args) = LLVMCountParams(module, call.func)

\* call_memcpy emitted its call of llvm.memcpy with five arguments.
C28_Witness ==
    /\ ilast.op = "wrapper"
    /\ ilast.name = "llvm.memcpy.p0i8.p0i8.i64"
    /\ Len(calls[Len(calls)].args) = 5
    /\ LLVMCountParams(module, calls[Len(calls)].func) = 5

ScalarKindBits(kind) ==
    CASE kind = "Bool" -> 1
      [] kind \in {"I8", "U8"} -> 8
      [] kind \in {"I16", "U16"} -> 16
      [] kind \in {"I32", "U32", "F32"} -> 32
      [] kind \in {"I64", "U64", "F64"} -> 64

\* The type suffix of a kind's own width: f for the floating kinds, i for
\* the others.
WidthSuffix(kind) ==
    (IF kind \in {"F32", "F64"} THEN "f" ELSE "i") \o ToString(ScalarKindBits(kind))

\* C30: llvm_numeric(name, kind, simd) returns "llvm.<name>." followed by
\* "v<WIDTH>" exactly when simd is true, followed by the type suffix whose
\* bit width is the bit width of kind: i1 for Bool, i8/i16/i32/i64 for the
\* 8/16/32/64-bit integer kinds, f32 for F32 and f64 for F64.
C30_NumericName ==
    nlast.op = "llvm_numeric" =>
        nlast.result
          = "llvm." \o nlast.name \o "."
              \o (IF nlast.simd THEN "v" \o ToString(LLVM_VECTOR_WIDTH) ELSE "")
              \o WidthSuffix(nlast.kind)

====
